---- MODULE Spec2Model ----
(***************************************************************************)
(* A model of the dataflow core of src/toil/cwl/cwltoil.py: the unrolling  *)
(* loop of CWLWorkflow.run, the promise table, the deferred values         *)
(* (ResolveSource, DefaultWithSource, StepValueFrom), the conditional      *)
(* gate, scatter and gather, and the job graph that the batch system runs. *)
(***************************************************************************)
EXTENDS Integers, Sequences, FiniteSets, TLC

(***************************************************************************)
(* Bounds of the model.                                                    *)
(***************************************************************************)
\* the largest number of steps of the top-level workflow
MaxSteps == 2
\* the longest array given as a workflow input or scattered over
MaxLen == 2

(***************************************************************************)
(* Values.  A Python value is a tagged record: None, a SkipNull instance,  *)
(* an int, a bool, a list or a dict keyed by short names.                  *)
(***************************************************************************)
Null == [t |-> "null"]
SkipNull == [t |-> "skip"]
IntV(n) == [t |-> "int", v |-> n]
BoolV(b) == [t |-> "bool", v |-> b]
StrV(s) == [t |-> "str", v |-> s]
ListV(s) == [t |-> "list", v |-> s]
DictV(f) == [t |-> "dict", v |-> f]
IndirectDict(f) == [t |-> "IndirectDict", v |-> f]
\* a toil Promise for the return value of unit u (Job.rv())
Promise(u) == [t |-> "promise", unit |-> u]
\* an exception raised while a value is computed
Err(kind) == [t |-> "error", kind |-> kind]
IsErr(x) == x.t = "error"
\* a key that a mapping does not hold ("default" not in inp, step.tool.get("when") is None)
Absent == [t |-> "absent", op |-> "absent"]

\* the array [base + 1, ..., base + n]
ListFrom(base, n) == ListV([i \in 1..n |-> IntV(base + i)])

(***************************************************************************)
(* Identifiers are paths; shortname keeps the last segment.                *)
(***************************************************************************)
shortname(id) == id[Len(id)]

\* cwltool.utils.aslist over a "source" field; a missing field is <<>>
aslist(x) == x

\* the elements of a sequence
Range(s) == {s[i] : i \in DOMAIN s}

(***************************************************************************)
(* Expressions.  The evaluator is an external collaborator; the model      *)
(* gives it four forms: a constant, the context ("self"), the value of an  *)
(* input, and a test that an input is not null.                            *)
(***************************************************************************)
ConstE(v) == [t |-> "expr", op |-> "const", v |-> v]
SelfE == [t |-> "expr", op |-> "self"]
InputE(p) == [t |-> "expr", op |-> "input", port |-> p]
NonNullE(p) == [t |-> "expr", op |-> "nonnull", port |-> p]
\* $(inputs): the whole binding set
InputsE == [t |-> "expr", op |-> "inputs"]

do_eval(expr, inputs, context) ==
    CASE expr.op = "const" -> expr.v
      [] expr.op = "self" -> context
      [] expr.op = "input" -> IF expr.port \in DOMAIN inputs THEN inputs[expr.port] ELSE Null
      [] expr.op = "nonnull" -> BoolV(expr.port \in DOMAIN inputs /\ inputs[expr.port] # Null)
      [] expr.op = "inputs" -> DictV(inputs)

(***************************************************************************)
(* Descriptions: what the workflow-description collaborator hands over.    *)
(* A step input port is an element of step.tool["inputs"]; a missing       *)
(* "source" is <<>>, a missing "default" or "valueFrom" is Absent, a       *)
(* missing "linkMerge" or "pickValue" is "none".                           *)
(***************************************************************************)
Port(id, source, default, valueFrom, linkMerge, pickValue) ==
    [id |-> id, source |-> source, default |-> default, valueFrom |-> valueFrom,
     linkMerge |-> linkMerge, pickValue |-> pickValue]

\* a command line tool: its declared inputs (the fields of inputs_record_schema),
\* its outputs, and whether its ResourceRequirement holds an expression
CommandLineTool(names, dynres) ==
    [class |-> "CommandLineTool",
     inputs |-> [i \in DOMAIN names |-> [id |-> <<names[i]>>, default |-> Absent]],
     outputs |-> << <<"o">> >>,
     dynres |-> dynres]

\* the identifiers of the outputs that a tool or a workflow declares
outputs_of(tool) ==
    IF tool.class = "Workflow" THEN [i \in DOMAIN tool.outputs |-> tool.outputs[i].id]
    ELSE tool.outputs

\* a workflow step (cwltool's WorkflowStep: step.tool and step.embedded_tool);
\* step.tool["outputs"] are the outputs of the wrapped tool under the step's id
WorkflowStep(id, inputs, scatter, scatterMethod, when, embedded_tool) ==
    [id |-> id, inputs |-> inputs,
     out |-> [i \in DOMAIN embedded_tool.outputs |->
                 id \o <<shortname(outputs_of(embedded_tool)[i])>>],
     scatter |-> scatter, scatterMethod |-> scatterMethod, when |-> when,
     embedded_tool |-> embedded_tool]

\* a workflow output parameter: "outputSource", and the draft-3 "source" key
WorkflowOutput(id, outputSource, source) ==
    [id |-> id, outputSource |-> outputSource, source |-> source,
     linkMerge |-> "none", pickValue |-> "none"]

Workflow(inputs, steps, outputs) ==
    [class |-> "Workflow", inputs |-> inputs, steps |-> steps, outputs |-> outputs]

\* the workflow a nested step wraps: one tool step fed by the workflow input
SubWorkflow(dynres, when) ==
    Workflow(<< [id |-> <<"sub", "a">>] >>,
             << WorkflowStep(<<"sub", "t">>,
                    << Port(<<"sub", "t", "a">>, << <<"sub", "a">> >>, Absent, Absent, "none", "none") >>,
                    <<>>, "none", when, CommandLineTool(<<"a">>, dynres)) >>,
             << WorkflowOutput(<<"sub", "o">>, << <<"sub", "t", "o">> >>, <<>>) >>)

(***************************************************************************)
(* The workflows the model runs.  StepId(i) is the i-th step of the        *)
(* top-level workflow; its ports are a (and b), its output is o; the       *)
(* workflow has one input, x.                                              *)
(***************************************************************************)
StepId(i) == << "s" \o ToString(i) >>
OutId(i) == StepId(i) \o <<"o">>
InId(i, p) == StepId(i) \o <<p>>
XId == <<"x">>
\* an identifier that no workflow input and no step output carries
Dangling == <<"zz">>

\* what a step wraps: a tool, a tool with dynamic resources, a nested workflow
Kinds == {"tool", "dyn", "wf"}

\* a tool with a second output, p
TwoOutputs(tool) == [tool EXCEPT !.outputs = << <<"o">>, <<"p">> >>]

\* a tool with a second output, job
JobOutput(tool) == [tool EXCEPT !.outputs = << <<"o">>, <<"job">> >>]

EmbeddedTool(kind, names) ==
    CASE kind = "tool" -> CommandLineTool(names, FALSE)
      [] kind = "dyn" -> CommandLineTool(names, TRUE)
      [] kind = "tool2" -> TwoOutputs(CommandLineTool(names, FALSE))
      [] kind = "job" -> JobOutput(CommandLineTool(names, FALSE))
      [] kind = "dynjob" -> JobOutput(CommandLineTool(names, TRUE))
      [] kind = "wf" -> SubWorkflow(FALSE, Absent)
      [] kind = "wfdyn" -> SubWorkflow(TRUE, Absent)
      [] kind = "wfskip" -> SubWorkflow(FALSE, ConstE(BoolV(FALSE)))

Gates == {Absent, ConstE(BoolV(FALSE)), NonNullE("a"), ConstE(IntV(1))}

\* (kind, scattered ports, scatterMethod, when) of a step
Flavours ==
    [kind : Kinds \cup {"tool2", "wfdyn", "wfskip"}, nscatter : {0}, method : {"none"}, when : Gates]
    \cup [kind : Kinds, nscatter : {1}, method : {"none", "flat_crossproduct"}, when : {Absent, NonNullE("a")}]
    \cup [kind : {"tool"}, nscatter : {2},
          method : {"dotproduct", "none", "bogus"},
          when : {Absent}]

ConsumerFlavours ==
    [kind : Kinds, nscatter : {0}, method : {"none"}, when : {Absent}]
    \cup [kind : {"tool"}, nscatter : {1}, method : {"none"}, when : {Absent}]

\* the step i of flavour fl whose port a is pa; a step that scatters over two
\* ports has a port b fed by the workflow input too
FlavouredStep(i, fl, pa) ==
    LET names == IF fl.nscatter = 2 THEN <<"a", "b">> ELSE <<"a">>
        pb == Port(InId(i, "b"), <<XId>>, Absent, Absent, "none", "none")
    IN WorkflowStep(StepId(i),
                    IF fl.nscatter = 2 THEN <<pa, pb>> ELSE <<pa>>,
                    [k \in 1..fl.nscatter |-> InId(i, names[k])],
                    fl.method, fl.when, EmbeddedTool(fl.kind, names))

PlainPort(id, source) == Port(id, source, Absent, Absent, "none", "none")

\* the sources a port may name in a workflow of n steps: none (a default only),
\* the workflow input, a step output (its own step's or a later step's too),
\* or an identifier that nothing produces
SourceChoices(n) ==
    {<<>>, <<XId>>, <<Dangling>>} \cup {<<OutId(j)>> : j \in 1..n}

ShapePort(i, src) ==
    Port(InId(i, "a"), src, IF src = <<>> THEN IntV(7) ELSE Absent, Absent, "none", "none")

OutputChoices(n) ==
    LET ids == {XId, Dangling} \cup {OutId(j) : j \in 1..n}
    IN {WorkflowOutput(<<"out">>, <<s>>, <<>>) : s \in ids}
       \cup {WorkflowOutput(<<"out">>, <<s>>, <<s>>) : s \in ids}

\* every wiring of up to MaxSteps plain tool steps, cycles and missing sources included
ShapeWorkflows ==
    UNION {
        {Workflow(<< [id |-> XId] >>,
                  [i \in 1..n |-> FlavouredStep(i, [kind |-> "tool", nscatter |-> 0,
                                                    method |-> "none", when |-> Absent],
                                                ShapePort(i, src[i]))],
                  <<out>>) :
            src \in [1..n -> SourceChoices(n)], out \in OutputChoices(n)}
        : n \in 0..MaxSteps}

\* how the consuming port of a producer/consumer pair treats its source
ConsumerPorts ==
    {Port(InId(2, "a"), << OutId(1) >>, d, Absent, "none", pv) :
        d \in {Absent, IntV(7)}, pv \in {"none", "first_non_null"}}
    \cup {Port(InId(2, "a"), << OutId(1), XId >>, Absent, Absent, "none", pv) :
        pv \in {"none", "first_non_null", "all_non_null"}}

\* a producer of every flavour, alone or feeding a consumer
FlavourWorkflows ==
    {Workflow(<< [id |-> XId] >>,
              << FlavouredStep(1, fl, PlainPort(InId(1, "a"), <<XId>>)) >>,
              << WorkflowOutput(<<"out">>, << OutId(1) >>, <<>>) >>) : fl \in Flavours}
    \cup
    {Workflow(<< [id |-> XId] >>,
              << FlavouredStep(1, fl, PlainPort(InId(1, "a"), <<XId>>)),
                 FlavouredStep(2, cf, pa) >>,
              << WorkflowOutput(<<"out">>, << OutId(2) >>, <<>>) >>) :
        fl \in Flavours, cf \in ConsumerFlavours, pa \in ConsumerPorts}

\* the values the workflow input may take
InputValues ==
    {Null, IntV(1)}
    \cup {ListFrom(0, n) : n \in 0..MaxLen}
    \cup {ListV([i \in 1..MaxLen |-> IF i = MaxLen THEN Null ELSE IntV(i)])}

(***************************************************************************)
(* The scatter workflows: inputs x, y and z; step s1 scatters over its     *)
(* ports a (fed by x) and b (fed by y) and has a port c that it does not   *)
(* scatter over, fed by z or by the output of a later step s2, a tool with *)
(* dynamic resources.                                                      *)
(***************************************************************************)
YId == <<"y">>
ZId == <<"z">>

ScatterMethods == {"dotproduct", "flat_crossproduct", "nested_crossproduct"}

\* where the step has a valueFrom: nowhere, on the scattered port a (the
\* value of c), or on the port c (the value of a)
ValueFroms == {"none", "a", "c"}

ScatterStep(method, vf, csrc) ==
    WorkflowStep(StepId(1),
        << Port(InId(1, "a"), <<XId>>, Absent,
                IF vf = "a" THEN InputE("c") ELSE Absent, "none", "none"),
           PlainPort(InId(1, "b"), <<YId>>),
           Port(InId(1, "c"), csrc, Absent,
                IF vf = "c" THEN InputE("a") ELSE Absent, "none", "none") >>,
        << InId(1, "a"), InId(1, "b") >>, method, Absent,
        EmbeddedTool("tool", <<"a", "b", "c">>))

ScatterWorkflows ==
    {Workflow(<< [id |-> XId], [id |-> YId], [id |-> ZId] >>,
              << ScatterStep(method, vf, <<ZId>>) >>,
              << WorkflowOutput(<<"out">>, << OutId(1) >>, <<>>) >>) :
        method \in ScatterMethods, vf \in ValueFroms}
    \cup
    {Workflow(<< [id |-> XId], [id |-> YId], [id |-> ZId] >>,
              << ScatterStep("dotproduct", vf, <<OutId(2)>>),
                 FlavouredStep(2, [kind |-> "dyn", nscatter |-> 0,
                                   method |-> "none", when |-> Absent],
                               PlainPort(InId(2, "a"), <<ZId>>)) >>,
              << WorkflowOutput(<<"out">>, << OutId(1) >>, <<>>) >>) :
        vf \in ValueFroms}

ScatterJobOrder(n, m) ==
    DictV([k \in {"x", "y", "z"} |->
              CASE k = "x" -> ListFrom(0, n)
                [] k = "y" -> ListFrom(10, m)
                [] k = "z" -> IntV(5)])

\* the job objects of the scatter workflows: arrays of up to MaxLen elements
\* for x and y, of equal and of unequal lengths, whose cross product has at
\* most 2 * MaxLen elements
ScatterJobOrders ==
    {ScatterJobOrder(nm[1], nm[2]) :
        nm \in {p \in (0..MaxLen) \X (0..MaxLen) : p[1] * p[2] <= 2 * MaxLen}}

(***************************************************************************)
(* The merge workflows: inputs x, y and z; step s1, a tool, reads its port *)
(* a from a list of sources under a linkMerge and a pickValue; step s2,    *)
(* the producer, reads x and is a tool, a skipped tool, a tool with        *)
(* dynamic resources, or a scatter over x whose sub-units run or skip.     *)
(***************************************************************************)
MergeSources ==
    {<<OutId(2)>>, <<XId>>, <<XId, YId>>, <<XId, OutId(2)>>, <<XId, OutId(2), YId, ZId>>}

\* linkMerge: absent, the two policies, and a string that names none
LinkMerges == {"none", "merge_nested", "merge_flattened", "bogus"}

\* pickValue: absent, and the three policies
PickValues == {"none", "first_non_null", "only_non_null", "all_non_null"}

ProducerFlavours ==
    [kind : {"tool"}, nscatter : {0, 1}, method : {"none"}, when : {Absent, ConstE(BoolV(FALSE))}]
    \cup [kind : {"dyn"}, nscatter : {0}, method : {"none"}, when : {Absent}]

MergeWorkflows ==
    {Workflow(<< [id |-> XId], [id |-> YId], [id |-> ZId] >>,
              << FlavouredStep(1, [kind |-> "tool", nscatter |-> 0,
                                   method |-> "none", when |-> Absent],
                               Port(InId(1, "a"), srcs, Absent, Absent, lm, pv)),
                 FlavouredStep(2, fl, PlainPort(InId(2, "a"), <<XId>>)) >>,
              << WorkflowOutput(<<"out">>, << OutId(1) >>, <<>>) >>) :
        srcs \in MergeSources, lm \in LinkMerges, pv \in PickValues, fl \in ProducerFlavours}

\* the job objects of the merge workflows: x is null, a number, an array, an
\* array that begins with null, or an array of one array; y is null or 5; z is 6
MergeJobOrders ==
    {DictV([k \in {"x", "y", "z"} |->
               CASE k = "x" -> vx [] k = "y" -> vy [] k = "z" -> IntV(6)]) :
        vx \in {Null, IntV(3), ListFrom(0, MaxLen),
                 ListV(<<Null>> \o ListFrom(0, MaxLen - 1).v),
                 ListV(<<ListFrom(0, MaxLen)>>)},
        vy \in {Null, IntV(5)}}

(***************************************************************************)
(* The wiring workflows: inputs x and y; two steps, each with the ports a  *)
(* and b.  Step s1 is a tool, a tool with dynamic resources or a nested    *)
(* workflow, scattered over a or not; step s2 is a tool, with dynamic      *)
(* resources or not.  A port reads no source (it has a default), one, or   *)
(* two: workflow inputs, the other step's output, the same source twice.   *)
(***************************************************************************)
WiringFlavours == [kind : Kinds, nscatter : {0, 1}]

WiringPort(i, p, src) ==
    Port(InId(i, p), src, IF src = <<>> THEN IntV(7) ELSE Absent, Absent, "none", "none")

WiringStep(i, fl, sa, sb) ==
    WorkflowStep(StepId(i),
                 << WiringPort(i, "a", sa), WiringPort(i, "b", sb) >>,
                 [k \in 1..fl.nscatter |-> InId(i, "a")],
                 "none", Absent, EmbeddedTool(fl.kind, <<"a", "b">>))

WiringWorkflows ==
    {Workflow(<< [id |-> XId], [id |-> YId] >>,
              << WiringStep(1, fl, sa1, sb1),
                 WiringStep(2, [kind |-> k2, nscatter |-> 0], sa2, sb2) >>,
              << WorkflowOutput(<<"out">>, << OutId(1) >>, <<>>) >>) :
        fl \in WiringFlavours,
        sa1 \in {<<>>, <<XId>>, <<XId, YId>>, <<OutId(2)>>},
        sb1 \in {<<>>, <<YId>>, <<OutId(2)>>},
        k2 \in {"tool", "dyn"},
        sa2 \in {<<>>, <<XId>>, <<OutId(1)>>, <<OutId(1), OutId(1)>>, <<OutId(1), XId>>, <<Dangling>>},
        sb2 \in {<<>>, <<XId>>, <<OutId(1)>>}}

\* the job object of the wiring workflows: x is an array, y is 5
WiringJobOrder ==
    DictV([k \in {"x", "y"} |-> IF k = "x" THEN ListFrom(0, MaxLen) ELSE IntV(5)])

(***************************************************************************)
(* The gather workflows: inputs x and y; step s1 scatters over its ports a *)
(* (fed by x) and b (fed by y) under each policy, with or without a gate   *)
(* that tests a, and wraps a tool with two outputs, a tool with dynamic    *)
(* resources or a nested workflow; its port c reads y, or the output of a  *)
(* later step s2.                                                          *)
(***************************************************************************)
GatherStep(method, when, kind, csrc) ==
    WorkflowStep(StepId(1),
        << PlainPort(InId(1, "a"), <<XId>>),
           PlainPort(InId(1, "b"), <<YId>>),
           PlainPort(InId(1, "c"), csrc) >>,
        << InId(1, "a"), InId(1, "b") >>, method, when,
        EmbeddedTool(kind, <<"a", "b", "c">>))

GatherWorkflows ==
    {Workflow(<< [id |-> XId], [id |-> YId] >>,
              << GatherStep(method, when, kind, <<YId>>) >>,
              << WorkflowOutput(<<"out">>, << OutId(1) >>, <<>>) >>) :
        method \in ScatterMethods, when \in {Absent, NonNullE("a")},
        kind \in {"tool2", "dyn", "wf"}}
    \cup
    {Workflow(<< [id |-> XId], [id |-> YId] >>,
              << GatherStep(method, NonNullE("a"), "tool2", <<OutId(2)>>),
                 FlavouredStep(2, [kind |-> "tool", nscatter |-> 0,
                                   method |-> "none", when |-> Absent],
                               PlainPort(InId(2, "a"), <<YId>>)) >>,
              << WorkflowOutput(<<"out">>, << OutId(1) >>, <<>>) >>) :
        method \in {"dotproduct", "nested_crossproduct"}}

\* x is an array of n elements, the last of them null or not; y of m
GatherJobOrder(n, m, last) ==
    DictV([k \in {"x", "y"} |->
              IF k = "x" THEN ListV([i \in 1..n |-> IF i = n THEN last ELSE IntV(i)])
              ELSE ListFrom(10, m)])

\* the job objects of the gather workflows: arrays of up to MaxLen elements
\* for x and of one or two for y, whose cross product has at most
\* MaxLen + 2 elements
GatherJobOrders ==
    {GatherJobOrder(nm[1], nm[2], last) :
        nm \in {p \in (0..MaxLen) \X (1..2) : p[1] * p[2] <= MaxLen + 2},
        last \in {Null, IntV(9)}}

(***************************************************************************)
(* The input workflows: inputs x and y; step s1 wraps a tool that declares *)
(* a and b and reports its job object.  Port a reads x or nothing, with or *)
(* without a default and a valueFrom; port b reads the array y, with or    *)
(* without a valueFrom; port e, which the tool does not declare, reads x   *)
(* or the output of a later step s2.  The step has a gate that tests e, or *)
(* none, and scatters over b, or not.                                      *)
(***************************************************************************)
InputStep(sa, da, va, vb, esrc, when, scatter, kind) ==
    WorkflowStep(StepId(1),
        << Port(InId(1, "a"), sa, da, va, "none", "none"),
           Port(InId(1, "b"), <<YId>>, Absent, vb, "none", "none"),
           PlainPort(InId(1, "e"), esrc) >>,
        scatter, "none", when, EmbeddedTool(kind, <<"a", "b">>))

InputWorkflows ==
    {Workflow(<< [id |-> XId], [id |-> YId] >>,
              << InputStep(sa, da, va, vb, <<XId>>, when, scatter, kind) >>,
              << WorkflowOutput(<<"out">>, << StepId(1) \o <<"job">> >>, <<>>) >>) :
        sa \in {<<>>, <<XId>>}, da \in {Absent, IntV(7)},
        va \in {Absent, SelfE, InputsE, InputE("b")},
        vb \in {Absent, InputE("a"), InputsE},
        when \in {Absent, NonNullE("e")},
        scatter \in {<<>>, << InId(1, "b") >>}, kind \in {"job", "dynjob"}}
    \cup
    {Workflow(<< [id |-> XId], [id |-> YId] >>,
              << InputStep(<<XId>>, IntV(7), va, InputE("a"), <<OutId(2)>>, NonNullE("e"),
                           <<>>, "job"),
                 FlavouredStep(2, [kind |-> "tool", nscatter |-> 0,
                                   method |-> "none", when |-> Absent],
                               PlainPort(InId(2, "a"), <<XId>>)) >>,
              << WorkflowOutput(<<"out">>, << StepId(1) \o <<"job">> >>, <<>>) >>) :
        va \in {SelfE, InputsE}}

\* the values of x: null, the values that Python takes for false, and others
InputValue(i) ==
    CASE i = 1 -> Null
      [] i = 2 -> IntV(0)
      [] i = 3 -> IntV(3)
      [] i = 4 -> BoolV(FALSE)
      [] i = 5 -> StrV("")
      [] i = 6 -> ListV(<<>>)
      [] i = 7 -> ListFrom(0, MaxLen)

InputJobOrder(i) ==
    DictV([k \in {"x", "y"} |-> IF k = "x" THEN InputValue(i) ELSE ListFrom(10, MaxLen)])

(***************************************************************************)
(* SkipNull filtering.                                                     *)
(***************************************************************************)
\* _filter_skip_null that leaves the elements of a list as they are
_filter_skip_null_shallow(name, value) ==
    IF value.t = "skip" THEN Null ELSE value

RECURSIVE _filter_skip_null(_, _)
_filter_skip_null(name, value) ==
    IF value.t = "skip" THEN Null
    ELSE IF value.t = "list"
         THEN ListV([i \in DOMAIN value.v |-> _filter_skip_null(name, value.v[i])])
    ELSE IF value.t = "dict"
         THEN DictV([k \in DOMAIN value.v |-> _filter_skip_null(name, value.v[k])])
    ELSE value

filter_skip_null(name, value) == _filter_skip_null(name, value)

\* err_flag[0] after _filter_skip_null(name, value, err_flag): a SkipNull
\* has been met, at any depth
RECURSIVE err_flag(_)
err_flag(value) ==
    IF value.t = "skip" THEN TRUE
    ELSE IF value.t \in {"list", "dict"} THEN \E i \in DOMAIN value.v : err_flag(value.v[i])
    ELSE FALSE

\* the ports that filter_skip_null(name, value) warns about
filter_skip_null_warning(name, value) == IF err_flag(value) THEN {name} ELSE {}

(***************************************************************************)
(* Conditional: the gate of a step.                                        *)
(***************************************************************************)
Conditional(expression, outputs) == [expression |-> expression, outputs |-> outputs]

\* Conditional(): what CWLJob and CWLWorkflow use when they are given none
NoConditional == Conditional(Absent, <<>>)

\* is_false over a resolved job object: BoolV(TRUE) to skip, BoolV(FALSE) to
\* run, an error when the expression gives no boolean
\* Python's "not" of any value, without the test for a boolean
not_of_any(expr_is_true) == BoolV(expr_is_true \in {Null, BoolV(FALSE), IntV(0), ListV(<<>>)})

not_bool(expr_is_true) ==
    IF expr_is_true.t = "bool" THEN BoolV(~expr_is_true.v)
    ELSE Err("WorkflowException")

is_false(conditional, job) ==
    IF conditional.expression = Absent THEN BoolV(FALSE)
    ELSE not_bool(do_eval(conditional.expression, job.v, Null))

\* a mapping that holds the first output only
skipped_first_output(conditional) ==
    DictV([k \in {shortname(conditional.outputs[1])} |-> SkipNull])

skipped_outputs(conditional) ==
    DictV([k \in {shortname(o) : o \in Range(conditional.outputs)} |-> SkipNull])

(***************************************************************************)
(* ResolveSource: linkMerge, then pickValue, then SkipNull filtering.      *)
(* promises maps an identifier to its producer: a SelfJob (the workflow's  *)
(* own resolved inputs) or a unit of the job graph.                        *)
(***************************************************************************)
SelfJob(j, v) == [t |-> "SelfJob", j |-> j, v |-> v]
JobRef(u) == [t |-> "Job", unit |-> u]
rv(producer) == IF producer.t = "SelfJob" THEN producer.v ELSE Promise(producer.unit)

\* ResolveSource.__init__ with the list decided by the number of sources only
ResolveSource_by_count(name, input, source_key, promises) ==
    LET source_names == aslist(input[source_key])
        isList == Len(source_names) > 1
    IN IF source_names = <<>> \/ \E i \in DOMAIN source_names : source_names[i] \notin DOMAIN promises
       THEN Err("KeyError")
       ELSE [t |-> "ResolveSource", name |-> name, input |-> input, source_key |-> source_key,
             isList |-> isList,
             promise_tuples |->
                 [i \in (IF isList THEN DOMAIN source_names ELSE {1}) |->
                     [key |-> shortname(source_names[i]), rv |-> rv(promises[source_names[i]])]]]

\* ResolveSource.__init__; promises[s] of an unknown s is a KeyError
ResolveSource(name, input, source_key, promises) ==
    LET source_names == aslist(input[source_key])
        isList == input.linkMerge # "none" \/ Len(source_names) > 1
    IN IF source_names = <<>> \/ \E i \in DOMAIN source_names : source_names[i] \notin DOMAIN promises
       THEN Err("KeyError")
       ELSE [t |-> "ResolveSource", name |-> name, input |-> input, source_key |-> source_key,
             isList |-> isList,
             promise_tuples |->
                 [i \in (IF isList THEN DOMAIN source_names ELSE {1}) |->
                     [key |-> shortname(source_names[i]), rv |-> rv(promises[source_names[i]])]]]

\* the sources appended one by one, an array as one element
flatten_appending(values) == values

RECURSIVE flatten(_)
flatten(values) ==
    IF values = <<>> THEN <<>>
    ELSE LET v == Head(values)
         IN (IF v.t = "list" THEN v.v ELSE <<v>>) \o flatten(Tail(values))

link_merge(input, values) ==
    LET link_merge_type == IF input.linkMerge = "none" THEN "merge_nested" ELSE input.linkMerge
    IN CASE link_merge_type = "merge_nested" -> ListV(values)
         [] link_merge_type = "merge_flattened" -> ListV(flatten(values))
         [] OTHER -> Err("ValidationException")

\* pick_value with a result list that drops None only
pick_value_keeping_skipped(input, values) ==
    LET pick_value_type == input.pickValue
        result == SelectSeq(values.v, LAMBDA v : v.t # "null")
    IN IF pick_value_type = "none" THEN values
       ELSE IF values.t # "list" THEN values
       ELSE CASE pick_value_type = "first_non_null" ->
                     IF Len(result) < 1 THEN Err("WorkflowException") ELSE result[1]
              [] pick_value_type = "only_non_null" ->
                     IF Len(result) = 0 THEN Err("WorkflowException")
                     ELSE IF Len(result) > 1 THEN Err("WorkflowException")
                     ELSE result[1]
              [] pick_value_type = "all_non_null" -> ListV(result)
              [] OTHER -> Err("WorkflowException")

\* pick_value without the test for more than one non-null value
pick_value_first_of_many(input, values) ==
    LET pick_value_type == input.pickValue
        result == SelectSeq(values.v, LAMBDA v : v.t # "skip" /\ v.t # "null")
    IN IF pick_value_type = "none" THEN values
       ELSE IF values.t # "list" THEN values
       ELSE CASE pick_value_type = "first_non_null" ->
                     IF Len(result) < 1 THEN Err("WorkflowException") ELSE result[1]
              [] pick_value_type = "only_non_null" ->
                     IF Len(result) = 0 THEN Err("WorkflowException")
                     ELSE result[1]
              [] pick_value_type = "all_non_null" -> ListV(result)
              [] OTHER -> Err("WorkflowException")

\* pick_value with all_non_null raising when nothing is left
pick_value_all_or_error(input, values) ==
    LET pick_value_type == input.pickValue
        result == SelectSeq(values.v, LAMBDA v : v.t # "skip" /\ v.t # "null")
    IN IF pick_value_type = "none" THEN values
       ELSE IF values.t # "list" THEN values
       ELSE CASE pick_value_type = "first_non_null" ->
                     IF Len(result) < 1 THEN Err("WorkflowException") ELSE result[1]
              [] pick_value_type = "only_non_null" ->
                     IF Len(result) = 0 THEN Err("WorkflowException")
                     ELSE IF Len(result) > 1 THEN Err("WorkflowException")
                     ELSE result[1]
              [] pick_value_type = "all_non_null" ->
                     IF Len(result) = 0 THEN Err("WorkflowException") ELSE ListV(result)
              [] OTHER -> Err("WorkflowException")

\* pick_value dropping the nulls of a list whatever the policy, none included
pick_value_always_filtering(input, values) ==
    LET pick_value_type == input.pickValue
        result == SelectSeq(values.v, LAMBDA v : v.t # "skip" /\ v.t # "null")
    IN IF values.t # "list" THEN values
       ELSE CASE pick_value_type = "first_non_null" ->
                     IF Len(result) < 1 THEN Err("WorkflowException") ELSE result[1]
              [] pick_value_type = "only_non_null" ->
                     IF Len(result) = 0 THEN Err("WorkflowException")
                     ELSE IF Len(result) > 1 THEN Err("WorkflowException")
                     ELSE result[1]
              [] pick_value_type \in {"all_non_null", "none"} -> ListV(result)
              [] OTHER -> Err("WorkflowException")

pick_value(input, values) ==
    LET pick_value_type == input.pickValue
        result == SelectSeq(values.v, LAMBDA v : v.t # "skip" /\ v.t # "null")
    IN IF pick_value_type = "none" THEN values
       ELSE IF values.t # "list" THEN values
       ELSE CASE pick_value_type = "first_non_null" ->
                     IF Len(result) < 1 THEN Err("WorkflowException") ELSE result[1]
              [] pick_value_type = "only_non_null" ->
                     IF Len(result) = 0 THEN Err("WorkflowException")
                     ELSE IF Len(result) > 1 THEN Err("WorkflowException")
                     ELSE result[1]
              [] pick_value_type = "all_non_null" -> ListV(result)
              [] OTHER -> Err("WorkflowException")

\* an exception passes through what follows it
picked_value(input, result) ==
    IF IsErr(result) THEN result ELSE pick_value(input, result)

filtered_value(name, result) ==
    IF IsErr(result) THEN result ELSE filter_skip_null(name, result)

\* the first statement of ResolveSource.resolve: v[1][v[0]] of every tuple,
\* merged, or value[1].get(value[0]) of the only tuple
merged_value(input, isList, tuples) ==
    IF isList
    THEN IF \E i \in DOMAIN tuples : tuples[i].key \notin DOMAIN tuples[i].rv.v
         THEN Err("KeyError")
         ELSE link_merge(input, [i \in DOMAIN tuples |-> tuples[i].rv.v[tuples[i].key]])
    ELSE IF tuples[1].key \in DOMAIN tuples[1].rv.v
         THEN tuples[1].rv.v[tuples[1].key]
         ELSE Null

\* ResolveSource.resolve, once every promise it holds has been replaced by
\* the producer's return value
ResolveSource_resolve(self) ==
    filtered_value(self.name,
        picked_value(self.input, merged_value(self.input, self.isList, self.promise_tuples)))

\* what ResolveSource.resolve logs: the warning of filter_skip_null, if
\* link_merge and pick_value have raised nothing
ResolveSource_warning(self, result) ==
    IF IsErr(result) THEN {} ELSE filter_skip_null_warning(self.name, result)

(***************************************************************************)
(* The other deferred values, and resolve_indirect.                        *)
(***************************************************************************)
StepValueFrom(expr, source) == [t |-> "StepValueFrom", expr |-> expr, source |-> source]
DefaultWithSource(default, source) == [t |-> "DefaultWithSource", default |-> default, source |-> source]
JustAValue(val) == [t |-> "JustAValue", val |-> val]

\* Python's truth value of a resolved value
Truthy(value) ==
    CASE value.t = "null" -> FALSE
      [] value.t = "int" -> value.v # 0
      [] value.t = "bool" -> value.v
      [] value.t = "str" -> value.v # ""
      [] value.t = "list" -> value.v # <<>>
      [] value.t = "dict" -> DOMAIN value.v # {}
      [] OTHER -> TRUE

DefaultWithSource_resolve(default, source_result) ==
    IF IsErr(source_result) THEN source_result
    ELSE IF Truthy(source_result) THEN source_result
    ELSE default

\* v.resolve() for each kind of deferred value
RECURSIVE resolve(_)
resolve(v) ==
    CASE v.t = "ResolveSource" -> ResolveSource_resolve(v)
      [] v.t = "DefaultWithSource" ->
             IF v.source = Absent THEN v.default
             ELSE DefaultWithSource_resolve(v.default, resolve(v.source))
      [] v.t = "StepValueFrom" -> resolve(v.source)
      [] v.t = "JustAValue" -> v.val

\* the second loop of resolve_indirect: the valueFrom expressions, each over
\* all the first-pass results; an exception of the first pass ends the call
\* the second loop with every expression over the values of the other
\* expressions
second_pass_over_results(pdict, first_pass_results) ==
    IF \E k \in DOMAIN pdict.v : IsErr(first_pass_results[k])
    THEN first_pass_results[CHOOSE k \in DOMAIN pdict.v : IsErr(first_pass_results[k])]
    ELSE DictV([k \in DOMAIN pdict.v |->
                   IF pdict.v[k].t = "StepValueFrom"
                   THEN do_eval(pdict.v[k].expr,
                                [j \in DOMAIN pdict.v |->
                                    IF j # k /\ pdict.v[j].t = "StepValueFrom"
                                    THEN do_eval(pdict.v[j].expr, first_pass_results,
                                                 first_pass_results[j])
                                    ELSE first_pass_results[j]],
                                first_pass_results[k])
                   ELSE first_pass_results[k]])

second_pass(pdict, first_pass_results) ==
    IF \E k \in DOMAIN pdict.v : IsErr(first_pass_results[k])
    THEN first_pass_results[CHOOSE k \in DOMAIN pdict.v : IsErr(first_pass_results[k])]
    ELSE DictV([k \in DOMAIN pdict.v |->
                   IF pdict.v[k].t = "StepValueFrom"
                   THEN do_eval(pdict.v[k].expr, first_pass_results, first_pass_results[k])
                   ELSE first_pass_results[k]])

resolve_indirect(pdict) ==
    second_pass(pdict,
        IF pdict.t = "IndirectDict"
        THEN [k \in DOMAIN pdict.v |-> resolve(pdict.v[k])]
        ELSE pdict.v)

\* what v.resolve() logs, for each kind of deferred value
RECURSIVE resolve_warning(_)
resolve_warning(v) ==
    CASE v.t = "ResolveSource" ->
             ResolveSource_warning(v,
                 picked_value(v.input, merged_value(v.input, v.isList, v.promise_tuples)))
      [] v.t = "DefaultWithSource" ->
             IF v.source = Absent THEN {} ELSE resolve_warning(v.source)
      [] v.t = "StepValueFrom" -> resolve_warning(v.source)
      [] OTHER -> {}

\* what resolve_indirect logs over what a unit has loaded.  The ports are
\* resolved in the order of the step's inputs and a port that raises ends
\* the call; in the workflows here the first port only can raise or warn
logged(loaded) ==
    IF IsErr(loaded) \/ loaded.t # "IndirectDict" THEN {}
    ELSE UNION {resolve_warning(loaded.v[k]) : k \in DOMAIN loaded.v}

\* resolve_indirect of what a unit has loaded, a failed load passing through
resolved(loaded) == IF IsErr(loaded) THEN loaded ELSE resolve_indirect(loaded)

\* cwltool.process.fill_in_defaults: a declared input that the job object
\* lacks (or holds as None) takes its default, or None
fill_in_defaults(inputs, job) ==
    LET declared == {shortname(inputs[i].id) : i \in DOMAIN inputs}
        decl(k) == inputs[CHOOSE i \in DOMAIN inputs : shortname(inputs[i].id) = k]
    IN DictV([k \in DOMAIN job.v \cup declared |->
                 IF k \in DOMAIN job.v /\ job.v[k] # Null THEN job.v[k]
                 ELSE IF k \in declared /\ decl(k).default # Absent THEN decl(k).default
                 ELSE Null])

(***************************************************************************)
(* Scatter.  The three policies compute the sub-inputs (job objects) of    *)
(* the sub-jobs, in the order in which CWLScatter creates them; the result *)
(* is a list (nested for nested_crossproduct) of job objects, or the       *)
(* exception that the Python raises.                                       *)
(***************************************************************************)
\* valueFrom of CWLScatter.run: short name -> expression, for the ports that have one
valueFromOf(step) ==
    LET with == {i \in DOMAIN step.inputs : step.inputs[i].valueFrom # Absent}
    IN [k \in {shortname(step.inputs[i].id) : i \in with} |->
           step.inputs[CHOOSE i \in with : shortname(step.inputs[i].id) = k].valueFrom]

\* postScatterEval: shortio is taken before the missing valueFrom ports are
\* set to None
postScatterEval(valueFrom, io) ==
    LET shortio == io
        withdefault == [k \in DOMAIN io \cup DOMAIN valueFrom |->
                           IF k \in DOMAIN io THEN io[k] ELSE Null]
    IN DictV([k \in DOMAIN withdefault |->
                 IF k \in DOMAIN valueFrom
                 THEN do_eval(valueFrom[k], shortio, withdefault[k])
                 ELSE withdefault[k]])

\* xs \o ys for two list values, an error if either is one
Extend(xs, ys) ==
    IF IsErr(xs) THEN xs ELSE IF IsErr(ys) THEN ys ELSE ListV(xs.v \o ys.v)

\* [x] + ys
Append1(x, ys) ==
    IF IsErr(x) THEN x ELSE IF IsErr(ys) THEN ys ELSE ListV(<<x>> \o ys.v)

\* len(value), which is a TypeError for None and for a number
HasLen(value) == value.t = "list"

\* copyjob[sc] = value
SetItem(copyjob, sc, value) ==
    IF IsErr(copyjob) THEN copyjob ELSE DictV([copyjob.v EXCEPT ![sc] = value])

\* a copyjob in which the first scattered port only takes its i-th element
dotproduct_first_port(cwljob, scatter, i) ==
    SetItem(DictV(cwljob), shortname(Head(scatter)), cwljob[shortname(Head(scatter))].v[i])

\* copyjob of the i-th pass of the dotproduct loop: every scattered port
\* takes the i-th element of its array (an IndexError past its end)
RECURSIVE dotproduct_copyjob(_, _, _)
dotproduct_copyjob(cwljob, scatter, i) ==
    IF scatter = <<>> THEN DictV(cwljob)
    ELSE IF shortname(Head(scatter)) \notin DOMAIN cwljob THEN Err("KeyError")
    ELSE IF ~HasLen(cwljob[shortname(Head(scatter))]) THEN Err("TypeError")
    ELSE IF i > Len(cwljob[shortname(Head(scatter))].v) THEN Err("IndexError")
    ELSE SetItem(dotproduct_copyjob(cwljob, Tail(scatter), i),
                 shortname(Head(scatter)), cwljob[shortname(Head(scatter))].v[i])

\* postScatterEval(copyjob), an exception passing through
evaluated(valueFrom, copyjob) ==
    IF IsErr(copyjob) THEN copyjob ELSE postScatterEval(valueFrom, copyjob.v)

\* the passes i, i+1, ..., n of the dotproduct loop
RECURSIVE dotproduct_from(_, _, _, _, _)
dotproduct_from(cwljob, scatter, valueFrom, i, n) ==
    IF i > n THEN ListV(<<>>)
    ELSE Append1(evaluated(valueFrom, dotproduct_copyjob(cwljob, scatter, i)),
                 dotproduct_from(cwljob, scatter, valueFrom, i + 1, n))

dotproduct_scatter(cwljob, scatter, valueFrom) ==
    IF shortname(scatter[1]) \notin DOMAIN cwljob THEN Err("KeyError")
    ELSE IF ~HasLen(cwljob[shortname(scatter[1])]) THEN Err("TypeError")
    ELSE dotproduct_from(cwljob, scatter, valueFrom, 1, Len(cwljob[shortname(scatter[1])].v))

\* jo of the n-th pass of a crossproduct loop: the first scattered port
\* takes the n-th element of its array
jo_n(joborder, scatter_keys, n) ==
    [joborder EXCEPT ![shortname(scatter_keys[1])] = joborder[shortname(scatter_keys[1])].v[n]]

RECURSIVE flat_crossproduct_from(_, _, _, _)
RECURSIVE flat_crossproduct_scatter(_, _, _)

\* the loop of flat_crossproduct_scatter, the later passes put first
flat_crossproduct_reversed(joborder, scatter_keys, valueFrom, n) ==
    IF n > Len(joborder[shortname(scatter_keys[1])].v) THEN ListV(<<>>)
    ELSE Extend(flat_crossproduct_from(joborder, scatter_keys, valueFrom, n + 1),
                IF Len(scatter_keys) = 1
                THEN ListV(<<postScatterEval(valueFrom, jo_n(joborder, scatter_keys, n))>>)
                ELSE flat_crossproduct_scatter(jo_n(joborder, scatter_keys, n),
                                               Tail(scatter_keys), valueFrom))

\* the passes n, n+1, ... of the loop of flat_crossproduct_scatter
flat_crossproduct_from(joborder, scatter_keys, valueFrom, n) ==
    IF n > Len(joborder[shortname(scatter_keys[1])].v) THEN ListV(<<>>)
    ELSE Extend(IF Len(scatter_keys) = 1
                THEN ListV(<<postScatterEval(valueFrom, jo_n(joborder, scatter_keys, n))>>)
                ELSE flat_crossproduct_scatter(jo_n(joborder, scatter_keys, n),
                                               Tail(scatter_keys), valueFrom),
                flat_crossproduct_from(joborder, scatter_keys, valueFrom, n + 1))

flat_crossproduct_scatter(joborder, scatter_keys, valueFrom) ==
    IF shortname(scatter_keys[1]) \notin DOMAIN joborder THEN Err("KeyError")
    ELSE IF ~HasLen(joborder[shortname(scatter_keys[1])]) THEN Err("TypeError")
    ELSE flat_crossproduct_from(joborder, scatter_keys, valueFrom, 1)

RECURSIVE nested_crossproduct_from(_, _, _, _)
RECURSIVE nested_crossproduct_scatter(_, _, _)

\* the loop of nested_crossproduct_scatter, extending outputs where it appends
nested_crossproduct_extended(joborder, scatter_keys, valueFrom, n) ==
    IF n > Len(joborder[shortname(scatter_keys[1])].v) THEN ListV(<<>>)
    ELSE Extend(IF Len(scatter_keys) = 1
                THEN ListV(<<postScatterEval(valueFrom, jo_n(joborder, scatter_keys, n))>>)
                ELSE nested_crossproduct_scatter(jo_n(joborder, scatter_keys, n),
                                                 Tail(scatter_keys), valueFrom),
                nested_crossproduct_from(joborder, scatter_keys, valueFrom, n + 1))

\* the loop of nested_crossproduct_scatter, the later passes put first
nested_crossproduct_backwards(joborder, scatter_keys, valueFrom, n) ==
    IF n > Len(joborder[shortname(scatter_keys[1])].v) THEN ListV(<<>>)
    ELSE Extend(nested_crossproduct_from(joborder, scatter_keys, valueFrom, n + 1),
                ListV(<< IF Len(scatter_keys) = 1
                         THEN postScatterEval(valueFrom, jo_n(joborder, scatter_keys, n))
                         ELSE nested_crossproduct_scatter(jo_n(joborder, scatter_keys, n),
                                                          Tail(scatter_keys), valueFrom) >>))

\* the passes n, n+1, ... of the loop of nested_crossproduct_scatter
nested_crossproduct_from(joborder, scatter_keys, valueFrom, n) ==
    IF n > Len(joborder[shortname(scatter_keys[1])].v) THEN ListV(<<>>)
    ELSE Append1(IF Len(scatter_keys) = 1
                 THEN postScatterEval(valueFrom, jo_n(joborder, scatter_keys, n))
                 ELSE nested_crossproduct_scatter(jo_n(joborder, scatter_keys, n),
                                                  Tail(scatter_keys), valueFrom),
                 nested_crossproduct_from(joborder, scatter_keys, valueFrom, n + 1))

nested_crossproduct_scatter(joborder, scatter_keys, valueFrom) ==
    IF shortname(scatter_keys[1]) \notin DOMAIN joborder THEN Err("KeyError")
    ELSE IF ~HasLen(joborder[shortname(scatter_keys[1])]) THEN Err("TypeError")
    ELSE nested_crossproduct_from(joborder, scatter_keys, valueFrom, 1)

\* the policy as the step states it, one scattered port or several
scatterMethod_as_given(step) == step.scatterMethod

\* the policy that CWLScatter.run applies: dotproduct for a single scattered port
scatterMethodOf(step) ==
    IF Len(step.scatter) = 1 THEN "dotproduct" ELSE step.scatterMethod

\* the sub-inputs that CWLScatter.run builds from its resolved job object
scatter_with(scatterMethod, cwljob, scatter, valueFrom) ==
    CASE scatterMethod = "dotproduct" -> dotproduct_scatter(cwljob, scatter, valueFrom)
      [] scatterMethod = "nested_crossproduct" ->
             nested_crossproduct_scatter(cwljob, scatter, valueFrom)
      [] scatterMethod = "flat_crossproduct" ->
             flat_crossproduct_scatter(cwljob, scatter, valueFrom)
      [] OTHER -> Err("ValidationException")

scatter_subinputs(step, job) ==
    IF IsErr(job) THEN job
    ELSE scatter_with(scatterMethodOf(step), job.v, step.scatter, valueFromOf(step))

\* the job objects at the leaves of a (nested) list, depth first
RECURSIVE Leaves(_)
RECURSIVE LeavesOfSeq(_)
Leaves(tree) == IF tree.t = "list" THEN LeavesOfSeq(tree.v) ELSE <<tree>>
LeavesOfSeq(s) == IF s = <<>> THEN <<>> ELSE Leaves(Head(s)) \o LeavesOfSeq(Tail(s))

\* the (nested) list with its j-th leaf replaced by leaf[start + j]
RECURSIVE ReplaceLeaves(_, _, _)
RECURSIVE ReplaceLeavesOfSeq(_, _, _)
ReplaceLeaves(tree, leaf, start) ==
    IF tree.t = "list" THEN ListV(ReplaceLeavesOfSeq(tree.v, leaf, start))
    ELSE leaf[start + 1]
ReplaceLeavesOfSeq(s, leaf, start) ==
    IF s = <<>> THEN <<>>
    ELSE <<ReplaceLeaves(Head(s), leaf, start)>>
         \o ReplaceLeavesOfSeq(Tail(s), leaf, start + Len(Leaves(Head(s))))

(***************************************************************************)
(* Gather.                                                                 *)
(***************************************************************************)
\* extract without the recursion into the lists inside a list
extract_one_level(obj, k) ==
    IF obj.t = "dict" THEN (IF k \in DOMAIN obj.v THEN obj.v[k] ELSE Null)
    ELSE IF obj.t = "list"
    THEN ListV([i \in DOMAIN obj.v |->
                   IF obj.v[i].t = "dict"
                   THEN (IF k \in DOMAIN obj.v[i].v THEN obj.v[i].v[k] ELSE Null)
                   ELSE ListV(<<>>)])
    ELSE ListV(<<>>)

RECURSIVE extract(_, _)
extract(obj, k) ==
    IF obj.t = "dict" THEN (IF k \in DOMAIN obj.v THEN obj.v[k] ELSE Null)
    ELSE IF obj.t = "list" THEN ListV([i \in DOMAIN obj.v |-> extract(obj.v[i], k)])
    ELSE ListV(<<>>)

CWLGather_run(step, outputs) ==
    DictV([k \in {shortname(o) : o \in Range(step.out)} |-> extract(outputs, k)])

(***************************************************************************)
(* The job graph.  A unit is a toil Job: its class, what it wraps, its job *)
(* object, its gate, its child and follow-on edges, and, once it has run,  *)
(* its return value and the status that the executor gave (exit).          *)
(***************************************************************************)
VARIABLES
    cwlwf,                  \* the top-level workflow description
    job_order,              \* the top-level job object (initialized_job_order)
    units,                  \* the job graph: unit number -> unit
    running,                \* the CWLWorkflow unit whose run is unrolling, or 0
    cwljob,                 \* CWLWorkflow.run: the resolved job object
    promises,               \* CWLWorkflow.run: identifier -> producer
    jobs,                   \* CWLWorkflow.run: step id -> the unit that implements it
    pc,                     \* CWLWorkflow.run: "idle", "pass" (in the loop), "outputs"
    stepIdx,                \* CWLWorkflow.run: the position of the for loop over the steps
    all_outputs_fulfilled,  \* CWLWorkflow.run: the loop's flag
    progress,               \* whether the current pass has materialized a step
    outobj,                 \* main: the output object, Absent until toil.start has returned
    warnings                \* cwllogger: the ports that filter_skip_null has warned about

vars == <<cwlwf, job_order, units, running, cwljob, promises, jobs, pc, stepIdx,
          all_outputs_fulfilled, progress, outobj, warnings>>

Unit(kind, tool, step, job, conditional) ==
    [kind |-> kind, tool |-> tool, step |-> step, cwljob |-> job, conditional |-> conditional,
     status |-> "new", rv |-> Null, children |-> <<>>, followOns |-> <<>>,
     gate |-> "unevaluated", executed |-> FALSE, exit |-> "none"]

CWLJob(tool, job, conditional) == Unit("CWLJob", tool, Absent, job, conditional)
CWLJobWrapper(tool, job, conditional) == Unit("CWLJobWrapper", tool, Absent, job, conditional)
CWLWorkflow(tool, job, conditional) == Unit("CWLWorkflow", tool, Absent, job, conditional)
ResolveIndirect(job) == Unit("ResolveIndirect", Absent, Absent, job, NoConditional)
CWLScatter(step, job, conditional) == Unit("CWLScatter", step.embedded_tool, step, job, conditional)
CWLGather(step, outputs) == Unit("CWLGather", Absent, step, outputs, NoConditional)

addChild(unit, c) == [unit EXCEPT !.children = Append(@, c)]
addFollowOn(unit, c) == [unit EXCEPT !.followOns = Append(@, c)]
hasChild(unit, c) == c \in Range(unit.children)
hasFollowOn(unit, c) == c \in Range(unit.followOns)

\* makeJob returning the workflow unit twice, without the follow-on
makeJob_without_followOn(tool, jobobj, step_inputs, conditional, n) ==
    IF tool.class = "Workflow"
    THEN [new |-> << CWLWorkflow(tool, jobobj, conditional) >>, wfjob |-> n + 1, followOn |-> n + 1]
    ELSE IF tool.dynres
    THEN [new |-> << CWLJobWrapper(tool, jobobj, conditional) >>, wfjob |-> n + 1, followOn |-> n + 1]
    ELSE [new |-> << CWLJob(tool, jobobj, conditional) >>, wfjob |-> n + 1, followOn |-> n + 1]

\* makeJob, called when the graph holds n units: the units it creates (with the
\* follow-on edge of a nested workflow), and the numbers of the pair it returns
makeJob(tool, jobobj, step_inputs, conditional, n) ==
    IF tool.class = "Workflow"
    THEN [new |-> << addFollowOn(CWLWorkflow(tool, jobobj, conditional), n + 2),
                     ResolveIndirect(Promise(n + 1)) >>,
          wfjob |-> n + 1, followOn |-> n + 2]
    ELSE IF tool.dynres
    THEN [new |-> << CWLJobWrapper(tool, jobobj, conditional) >>, wfjob |-> n + 1, followOn |-> n + 1]
    ELSE [new |-> << CWLJob(tool, jobobj, conditional) >>, wfjob |-> n + 1, followOn |-> n + 1]

(***************************************************************************)
(* Promises.  A unit's job object and return value may hold promises for   *)
(* other units' return values; toil replaces each by the value when the    *)
(* unit that holds it is loaded to run.                                    *)
(***************************************************************************)
\* every promise inside x is fulfilled: its unit has returned, and so on
\* through what that unit returned
RECURSIVE Fulfilled(_, _)
Fulfilled(U, x) ==
    CASE x.t = "promise" -> U[x.unit].status = "returned" /\ Fulfilled(U, U[x.unit].rv)
      [] x.t \in {"list", "dict", "IndirectDict"} -> \A i \in DOMAIN x.v : Fulfilled(U, x.v[i])
      [] x.t = "ResolveSource" -> \A i \in DOMAIN x.promise_tuples : Fulfilled(U, x.promise_tuples[i].rv)
      [] x.t \in {"DefaultWithSource", "StepValueFrom"} -> Fulfilled(U, x.source)
      [] OTHER -> TRUE

\* x with every promise replaced by the value it stands for
RECURSIVE Deref(_, _)
Deref(U, x) ==
    CASE x.t = "promise" -> Deref(U, U[x.unit].rv)
      [] x.t \in {"list", "dict", "IndirectDict"} ->
             [x EXCEPT !.v = [i \in DOMAIN x.v |-> Deref(U, x.v[i])]]
      [] x.t = "ResolveSource" ->
             [x EXCEPT !.promise_tuples =
                 [i \in DOMAIN x.promise_tuples |->
                     [x.promise_tuples[i] EXCEPT !.rv = Deref(U, x.promise_tuples[i].rv)]]]
      [] x.t \in {"DefaultWithSource", "StepValueFrom"} ->
             [x EXCEPT !.source = Deref(U, x.source)]
      [] OTHER -> x

\* what unit u reads when it starts: its job object with the promises
\* replaced, or the failure of reading a promise that is not fulfilled
Loaded(U, u) ==
    IF Fulfilled(U, U[u].cwljob) THEN Deref(U, U[u].cwljob) ELSE Err("UnfulfilledPromise")

(***************************************************************************)
(* The batch system.  A child may start once its parent's run has          *)
(* returned; a follow-on once its parent has returned and the parent's     *)
(* children, with all their successors, have completed.                    *)
(***************************************************************************)
RECURSIVE Completed(_, _)
Completed(U, u) ==
    /\ U[u].status = "returned"
    /\ \A c \in Range(U[u].children) \cup Range(U[u].followOns) : Completed(U, c)

CanStart(u) ==
    /\ units[u].status = "new"
    /\ \A p \in DOMAIN units :
        /\ hasChild(units[p], u) => units[p].status = "returned"
        /\ hasFollowOn(units[p], u) =>
               /\ units[p].status = "returned"
               /\ \A c \in Range(units[p].children) : Completed(units, c)

\* the execution collaborator: each output of a tool echoes the tool's inputs,
\* and an output named job is the job object that the tool was executed with
echo(values) == IF Len(values) = 1 THEN values[1] ELSE ListV(values)

Execute(tool, job) ==
    DictV([k \in {shortname(o) : o \in Range(tool.outputs)} |->
              IF k = "job" THEN job
              ELSE echo([i \in DOMAIN tool.inputs |-> job.v[shortname(tool.inputs[i].id)]])])

returned(unit, value) == [unit EXCEPT !.status = "returned", !.rv = value]
failed(unit, error) == [unit EXCEPT !.status = "failed", !.rv = error]
finished(unit, value) == IF IsErr(value) THEN failed(unit, value) ELSE returned(unit, value)

(***************************************************************************)
(* CWLWorkflow.run: the unrolling loop.                                    *)
(***************************************************************************)
steps == units[running].tool.steps

\* every source identifier of the step's input ports, in port order
AllSources(step) ==
    LET RECURSIVE cat(_)
        cat(i) == IF i > Len(step.inputs) THEN <<>>
                  ELSE aslist(step.inputs[i].source) \o cat(i + 1)
    IN cat(1)

\* the test 'step.tool["id"] not in jobs' left out
pending_always(step, J) == TRUE

\* the step has not been materialized yet
pending(step, J) == step.id \notin DOMAIN J

\* the test without 'if "source" in inp': a port without a source fails it
stepinputs_fufilled_sourced(step, P) ==
    \A i \in DOMAIN step.inputs :
        /\ step.inputs[i].source # <<>>
        /\ \A s \in Range(aslist(step.inputs[i].source)) : s \in DOMAIN P

stepinputs_fufilled(step, P) ==
    \A s \in Range(AllSources(step)) : s \in DOMAIN P

\* jobobj[key] = ResolveSource(...) of a port with a source
sourced(step, inp, P) ==
    IF inp.source # <<>>
    THEN ResolveSource(step.id \o <<shortname(inp.id)>>, inp, "source", P)
    ELSE Absent

\* jobobj[key] = DefaultWithSource(inp["default"], jobobj.get(key))
defaulted(inp, entry) ==
    IF inp.default # Absent THEN DefaultWithSource(inp.default, entry) ELSE entry

\* jobobj[key] = StepValueFrom(inp["valueFrom"], jobobj.get(key, JustAValue(None)))
valued(step, inp, entry) ==
    IF inp.valueFrom # Absent /\ step.scatter = <<>>
    THEN StepValueFrom(inp.valueFrom, IF entry = Absent THEN JustAValue(Null) ELSE entry)
    ELSE entry

\* jobobj[key] with the default applied after the valueFrom
jobobj_entry_default_last(step, inp, P) ==
    defaulted(inp, valued(step, inp, sourced(step, inp, P)))

\* jobobj[key] of an input port, Absent when the port sets no key
jobobj_entry(step, inp, P) == valued(step, inp, defaulted(inp, sourced(step, inp, P)))

\* the dictionary of the entries that are set, by port name
keyed(step, entries) ==
    [k \in {shortname(step.inputs[i].id) : i \in {j \in DOMAIN entries : entries[j] # Absent}} |->
        entries[CHOOSE i \in DOMAIN entries : shortname(step.inputs[i].id) = k]]

build_jobobj(step, P) ==
    keyed(step, [i \in DOMAIN step.inputs |-> jobobj_entry(step, step.inputs[i], P)])

\* a scatter/gather pair, or what makeJob gives
units_for(step, jobobj, conditional, n) ==
    IF step.scatter # <<>>
    THEN [new |-> << addFollowOn(CWLScatter(step, jobobj, conditional), n + 2),
                     CWLGather(step, Promise(n + 1)) >>,
          wfjob |-> n + 1, followOn |-> n + 2]
    ELSE makeJob(step.embedded_tool, jobobj, step.inputs, conditional, n)

\* the unit(s) of a ready step
step_units(step, P, n) ==
    units_for(step, IndirectDict(build_jobobj(step, P)), Conditional(step.when, step.out), n)

\* the unit behind a producer, for addChild, hasChild, addFollowOn, hasFollowOn
producer_unit(producer) == IF producer.t = "SelfJob" THEN producer.j ELSE producer.unit

\* the test left out: every consumer becomes a child of its producer
wired_as_child(U, producer) == FALSE

\* the producer is a CWLJobWrapper or a CWLGather
wired_as_followOn(U, producer) ==
    producer.t = "Job" /\ U[producer.unit].kind \in {"CWLJobWrapper", "CWLGather"}

\* the edges from the producers of the sources srcs to wfjob
RECURSIVE connect(_, _, _, _)

connected_or(connected, rest) ==
    [units |-> rest.units, connected |-> connected \/ rest.connected]

\* the edge added, and an edge from the consumer back to the producer
connect_edge_and_back(U, P, srcs, wfjob, p, addF, addC) ==
    connected_or(addF \/ addC,
        connect(IF addF THEN [U EXCEPT ![p] = addFollowOn(@, wfjob), ![wfjob] = addChild(@, p)]
                ELSE IF addC THEN [U EXCEPT ![p] = addChild(@, wfjob), ![wfjob] = addChild(@, p)]
                ELSE U,
                P, Tail(srcs), wfjob))

connect_edge(U, P, srcs, wfjob, p, addF, addC) ==
    connected_or(addF \/ addC,
        connect(IF addF THEN [U EXCEPT ![p] = addFollowOn(@, wfjob)]
                ELSE IF addC THEN [U EXCEPT ![p] = addChild(@, wfjob)]
                ELSE U,
                P, Tail(srcs), wfjob))

\* the edge added without the hasFollowOn and hasChild tests
connect_producer_untested(U, P, srcs, wfjob, p, follow) ==
    connect_edge(U, P, srcs, wfjob, p, follow, ~follow)

connect_producer(U, P, srcs, wfjob, p, follow) ==
    connect_edge(U, P, srcs, wfjob, p,
                 follow /\ ~hasFollowOn(U[p], wfjob), ~follow /\ ~hasChild(U[p], wfjob))

connect(U, P, srcs, wfjob) ==
    IF srcs = <<>> THEN [units |-> U, connected |-> FALSE]
    ELSE connect_producer(U, P, srcs, wfjob,
                          producer_unit(P[Head(srcs)]), wired_as_followOn(U, P[Head(srcs)]))

\* the step left as it is when no source connected it
child_of_workflow_left_out(wf, made, wired) ==
    [units |-> wired.units, followOn |-> made.followOn]

\* a step that no source connected becomes a child of the workflow unit
child_of_workflow(wf, made, wired) ==
    [units |-> IF wired.connected THEN wired.units
               ELSE [wired.units EXCEPT ![wf] = addChild(@, made.wfjob)],
     followOn |-> made.followOn]

wire(U, P, step, wf, made) ==
    child_of_workflow(wf, made, connect(U \o made.new, P, AllSources(step), made.wfjob))

\* the job graph after the step is materialized by the workflow unit wf
materialize(U, P, step, wf) == wire(U, P, step, wf, step_units(step, P, Len(U)))

\* a table that holds the outputs of the last materialized step only
register_fresh(P, step, followOn) ==
    [id \in Range(step.out) |-> JobRef(followOn)]

\* the first output of the step registered only
register_first_output(P, step, followOn) ==
    [id \in DOMAIN P \cup {step.out[1]} |->
        IF id = step.out[1] THEN JobRef(followOn) ELSE P[id]]

\* no output of the step registered
register_nothing(P, step, followOn) == P

\* promises[out["id"]] = followOn for every output of the step
register(P, step, followOn) ==
    [id \in DOMAIN P \cup Range(step.out) |->
        IF id \in Range(step.out) THEN JobRef(followOn) ELSE P[id]]

\* the workflow inputs, registered before the loop
register_inputs(wf, tool, job) ==
    [id \in {tool.inputs[i].id : i \in DOMAIN tool.inputs} |-> SelfJob(wf, job)]

\* the test that ends a pass: the flag, and the "source" of the workflow outputs
outputs_fulfilled(flag, outputs, P) ==
    flag /\ \A i \in DOMAIN outputs :
                outputs[i].source # <<>> => outputs[i].source[1] \in DOMAIN P

\* outobj: one ResolveSource per workflow output, a KeyError if a lookup fails
outobj_of(tool, entries) ==
    IF \E i \in DOMAIN entries : IsErr(entries[i]) THEN Err("KeyError")
    ELSE IndirectDict([k \in {shortname(tool.outputs[i].id) : i \in DOMAIN tool.outputs} |->
             entries[CHOOSE i \in DOMAIN tool.outputs : shortname(tool.outputs[i].id) = k]])

build_outobj(tool, P) ==
    outobj_of(tool, [i \in DOMAIN tool.outputs |->
                        ResolveSource(tool.outputs[i].id, tool.outputs[i], "outputSource", P)])

idle == /\ running' = 0
        /\ cwljob' = Null
        /\ promises' = <<>>
        /\ jobs' = <<>>
        /\ pc' = "idle"
        /\ stepIdx' = 0
        /\ all_outputs_fulfilled' = FALSE
        /\ progress' = FALSE

\* the gate of unit u over its job object, an exception passing through
gate_of(U, u, job) == IF IsErr(job) THEN job ELSE is_false(U[u].conditional, job)

\* lines 1062-1079: the gate, and the inputs registered before the loop
EnterLoop(u, job, skip) ==
    IF IsErr(skip)
    THEN /\ units' = [units EXCEPT ![u] =
                          [failed(@, skip) EXCEPT !.gate = IF IsErr(job) THEN @ ELSE "error"]]
         /\ UNCHANGED <<running, cwljob, promises, jobs, pc, stepIdx,
                        all_outputs_fulfilled, progress>>
    ELSE IF skip.v
    THEN /\ units' = [units EXCEPT ![u] =
                          [returned(@, skipped_outputs(units[u].conditional))
                              EXCEPT !.gate = "skipped"]]
         /\ UNCHANGED <<running, cwljob, promises, jobs, pc, stepIdx,
                        all_outputs_fulfilled, progress>>
    ELSE /\ units' = [units EXCEPT ![u].gate = "passed", ![u].status = "running"]
         /\ running' = u
         /\ cwljob' = job
         /\ promises' = register_inputs(u, units[u].tool, job)
         /\ jobs' = <<>>
         /\ pc' = "pass"
         /\ stepIdx' = 1
         /\ all_outputs_fulfilled' = TRUE
         /\ progress' = FALSE

Resolved(u, job) == EnterLoop(u, job, gate_of(units, u, job))

\* lines 1061-1079: resolve the job object, evaluate the gate, register the inputs
StartWorkflow(u) ==
    /\ running = 0
    /\ units[u].kind = "CWLWorkflow"
    /\ CanStart(u)
    /\ Resolved(u, resolved(Loaded(units, u)))
    /\ warnings' = warnings \cup logged(Loaded(units, u))
    /\ UNCHANGED <<cwlwf, job_order, outobj>>

\* the flag of the pass left as it is, whatever the sources of the step
EndOfTurn_flag_kept(step, after) ==
    /\ promises' = after
    /\ all_outputs_fulfilled' = all_outputs_fulfilled

\* lines 1158-1164: the step's outputs registered, and the flag of the pass
EndOfTurn(step, after) ==
    /\ promises' = after
    /\ all_outputs_fulfilled' =
           (all_outputs_fulfilled /\ \A s \in Range(AllSources(step)) : s \in DOMAIN after)

\* lines 1096-1159: the step becomes units of the job graph
Materialized(step, made) ==
    /\ units' = made.units
    /\ jobs' = (step.id :> made.followOn) @@ jobs
    /\ progress' = TRUE
    /\ EndOfTurn(step, register(promises, step, made.followOn))

Turn(step) ==
    IF pending(step, jobs) /\ stepinputs_fufilled(step, promises)
    THEN Materialized(step, materialize(units, promises, step, running))
    ELSE /\ UNCHANGED <<units, jobs, progress>>
         /\ EndOfTurn(step, promises)

\* lines 1088-1164: one turn of the for loop over the steps
VisitStep ==
    /\ pc = "pass"
    /\ stepIdx <= Len(steps)
    /\ Turn(steps[stepIdx])
    /\ stepIdx' = stepIdx + 1
    /\ UNCHANGED <<cwlwf, job_order, outobj, warnings, running, cwljob, pc>>

\* lines 1166-1170 and 1080: the pass is over and the loop ends
LoopExit ==
    /\ pc = "pass"
    /\ stepIdx > Len(steps)
    /\ outputs_fulfilled(all_outputs_fulfilled, units[running].tool.outputs, promises)
    /\ pc' = "outputs"
    /\ UNCHANGED <<cwlwf, job_order, outobj, warnings, units, running, cwljob, promises, jobs, stepIdx,
                   all_outputs_fulfilled, progress>>

\* lines 1166-1170, 1080 and 1086: the pass is over and another one starts
LoopAgain ==
    /\ pc = "pass"
    /\ stepIdx > Len(steps)
    /\ ~outputs_fulfilled(all_outputs_fulfilled, units[running].tool.outputs, promises)
    /\ stepIdx' = 1
    /\ all_outputs_fulfilled' = TRUE
    /\ progress' = FALSE
    /\ UNCHANGED <<cwlwf, job_order, outobj, warnings, units, running, cwljob, promises, jobs, pc>>

\* lines 1172-1182: the workflow's output object, and the end of the run
BuildOutputs ==
    /\ pc = "outputs"
    /\ units' = [units EXCEPT ![running] =
                     finished(@, build_outobj(units[running].tool, promises))]
    /\ idle
    /\ UNCHANGED <<cwlwf, job_order, outobj, warnings>>

(***************************************************************************)
(* The run methods of the other units.                                     *)
(***************************************************************************)
unrolling == <<running, cwljob, promises, jobs, pc, stepIdx, all_outputs_fulfilled, progress>>

\* the job object without the inputs that the tool does not declare
declared_only(tool, job) ==
    DictV([k \in {shortname(tool.inputs[i].id) : i \in DOMAIN tool.inputs} \cap DOMAIN job.v |->
              job.v[k]])

\* fill_in_defaults over the resolved job object, an exception passing through
filled(tool, job) == IF IsErr(job) THEN job ELSE fill_in_defaults(tool.inputs, job)

\* CWLJob.run without the test of the status (lines 814-815)
gated_whatever_status(unit, status, job, skip) ==
    IF IsErr(skip) THEN [failed(unit, skip) EXCEPT !.gate = "error"]
    ELSE IF skip.v
    THEN [returned(unit, skipped_outputs(unit.conditional)) EXCEPT !.gate = "skipped"]
    ELSE [returned(unit, Execute(unit.tool, declared_only(unit.tool, job)))
             EXCEPT !.gate = "passed", !.executed = TRUE, !.exit = status]

\* lines 770-832: skip, or execute the tool over its declared inputs
gated(unit, status, job, skip) ==
    IF IsErr(skip) THEN [failed(unit, skip) EXCEPT !.gate = "error"]
    ELSE IF skip.v
    THEN [returned(unit, skipped_outputs(unit.conditional)) EXCEPT !.gate = "skipped"]
    ELSE IF status # "success"
    THEN [failed(unit, Err("WorkflowException"))
             EXCEPT !.gate = "passed", !.executed = TRUE, !.exit = status]
    ELSE [returned(unit, Execute(unit.tool, declared_only(unit.tool, job)))
             EXCEPT !.gate = "passed", !.executed = TRUE, !.exit = status]

\* the gate tested after the inputs that the tool does not declare are removed
with_job_declared_first(unit, status, job) ==
    IF IsErr(job) THEN failed(unit, job)
    ELSE gated(unit, status, job, is_false(unit.conditional, declared_only(unit.tool, job)))

with_job(unit, status, job) ==
    IF IsErr(job) THEN failed(unit, job)
    ELSE gated(unit, status, job, is_false(unit.conditional, job))

\* CWLJob.run, the execution collaborator answering with status
CWLJob_run(U, u, status) ==
    with_job(U[u], status, filled(U[u].tool, resolved(Loaded(U, u))))

RunJob(u) ==
    /\ running = 0
    /\ units[u].kind = "CWLJob"
    /\ CanStart(u)
    /\ \E status \in {"success", "permanentFail"} :
           units' = [units EXCEPT ![u] = CWLJob_run(units, u, status)]
    /\ warnings' = warnings \cup logged(Loaded(units, u))
    /\ UNCHANGED <<cwlwf, job_order, outobj, unrolling>>

\* the child created without the gate
with_ungated_realjob(U, u, job, realjob) ==
    IF IsErr(job) THEN [U EXCEPT ![u] = failed(@, job)]
    ELSE Append([U EXCEPT ![u] = returned(addChild(@, realjob), Promise(realjob))],
                CWLJob(U[u].tool, job, NoConditional))

\* lines 691-699: the child CWLJob over the resolved job object
with_realjob(U, u, job, realjob) ==
    IF IsErr(job) THEN [U EXCEPT ![u] = failed(@, job)]
    ELSE Append([U EXCEPT ![u] = returned(addChild(@, realjob), Promise(realjob))],
                CWLJob(U[u].tool, job, U[u].conditional))

\* CWLJobWrapper.run: the job graph after unit u has created its child
CWLJobWrapper_run(U, u) ==
    with_realjob(U, u, filled(U[u].tool, resolved(Loaded(U, u))), Len(U) + 1)

RunWrapper(u) ==
    /\ running = 0
    /\ units[u].kind = "CWLJobWrapper"
    /\ CanStart(u)
    /\ units' = CWLJobWrapper_run(units, u)
    /\ warnings' = warnings \cup logged(Loaded(units, u))
    /\ UNCHANGED <<cwlwf, job_order, outobj, unrolling>>

\* the sub-jobs of a scatter, one makeJob per sub-input, in order
RECURSIVE subjobs(_, _, _, _)

subjobs_cons(made, rest) ==
    [new |-> made.new \o rest.new,
     wfjobs |-> <<made.wfjob>> \o rest.wfjobs,
     followOns |-> <<made.followOn>> \o rest.followOns]

subjobs_after(tool, conditional, leaves, n, made) ==
    subjobs_cons(made, subjobs(tool, conditional, Tail(leaves), n + Len(made.new)))

subjobs(tool, conditional, leaves, n) ==
    IF leaves = <<>> THEN [new |-> <<>>, wfjobs |-> <<>>, followOns |-> <<>>]
    ELSE subjobs_after(tool, conditional, leaves, n,
                       makeJob(tool, Head(leaves), Absent, conditional, n))

\* lines 964-968: the sub-jobs are children, their outputs the return value
with_subjobs(U, u, tree, made) ==
    [U EXCEPT ![u] = returned([@ EXCEPT !.children = @ \o made.wfjobs],
                              ReplaceLeaves(tree,
                                  [j \in DOMAIN made.followOns |-> Promise(made.followOns[j])], 0))]
    \o made.new

\* the sub-jobs created without the gate of the step
scattered_without_gate(U, u, tree) ==
    IF IsErr(tree) THEN [U EXCEPT ![u] = failed(@, tree)]
    ELSE with_subjobs(U, u, tree,
             subjobs(U[u].step.embedded_tool, NoConditional, Leaves(tree), Len(U)))

scattered(U, u, tree) ==
    IF IsErr(tree) THEN [U EXCEPT ![u] = failed(@, tree)]
    ELSE with_subjobs(U, u, tree,
             subjobs(U[u].step.embedded_tool, U[u].conditional, Leaves(tree), Len(U)))

\* CWLScatter.run: the job graph after unit u has created its sub-jobs
CWLScatter_run(U, u) ==
    scattered(U, u, scatter_subinputs(U[u].step, resolved(Loaded(U, u))))

RunScatter(u) ==
    /\ running = 0
    /\ units[u].kind = "CWLScatter"
    /\ CanStart(u)
    /\ units' = CWLScatter_run(units, u)
    /\ warnings' = warnings \cup logged(Loaded(units, u))
    /\ UNCHANGED <<cwlwf, job_order, outobj, unrolling>>

\* CWLGather.run over the loaded outputs, a failed load passing through
gathered(step, outputs) == IF IsErr(outputs) THEN outputs ELSE CWLGather_run(step, outputs)

RunGather(u) ==
    /\ running = 0
    /\ units[u].kind = "CWLGather"
    /\ CanStart(u)
    /\ units' = [units EXCEPT ![u] = finished(@, gathered(units[u].step, Loaded(units, u)))]
    /\ UNCHANGED <<cwlwf, job_order, outobj, warnings, unrolling>>

RunResolveIndirect(u) ==
    /\ running = 0
    /\ units[u].kind = "ResolveIndirect"
    /\ CanStart(u)
    /\ units' = [units EXCEPT ![u] = finished(@, resolved(Loaded(units, u)))]
    /\ warnings' = warnings \cup logged(Loaded(units, u))
    /\ UNCHANGED <<cwlwf, job_order, outobj, unrolling>>

\* main without line 1511: the output object is what toil.start gave
main_unresolved ==
    /\ running = 0
    /\ outobj = Absent
    /\ Completed(units, 1)
    /\ outobj' = Deref(units, units[1].rv)
    /\ warnings' = warnings
    /\ UNCHANGED <<cwlwf, job_order, units, unrolling>>

\* lines 1509-1511: toil.start gives what the root unit returned once every
\* unit has completed (it raises if one has failed), and main resolves it
main ==
    /\ running = 0
    /\ outobj = Absent
    /\ Completed(units, 1)
    /\ outobj' = resolved(Deref(units, units[1].rv))
    /\ warnings' = warnings \cup logged(Deref(units, units[1].rv))
    /\ UNCHANGED <<cwlwf, job_order, units, unrolling>>

(***************************************************************************)
(* The specification: main builds the root pair with makeJob and starts    *)
(* it; the batch system then runs every unit that may start.               *)
(***************************************************************************)
\* main: the root pair that makeJob gives, nothing running yet
Constructed ==
    /\ units = makeJob(cwlwf, job_order, Absent, NoConditional, 0).new
    /\ running = 0
    /\ cwljob = Null
    /\ promises = <<>>
    /\ jobs = <<>>
    /\ pc = "idle"
    /\ stepIdx = 0
    /\ all_outputs_fulfilled = FALSE
    /\ progress = FALSE
    /\ outobj = Absent
    /\ warnings = {}

\* a wiring runs over one input value, a flavour over every one
Init ==
    /\ \/ /\ cwlwf \in ShapeWorkflows
          /\ job_order = DictV([k \in {"x"} |-> IntV(1)])
       \/ /\ cwlwf \in FlavourWorkflows
          /\ job_order \in {DictV([k \in {"x"} |-> v]) : v \in InputValues}
    /\ Constructed

Next ==
    \/ \E u \in DOMAIN units : StartWorkflow(u)
    \/ VisitStep
    \/ LoopExit
    \/ LoopAgain
    \/ BuildOutputs
    \/ \E u \in DOMAIN units : RunJob(u)
    \/ \E u \in DOMAIN units : RunWrapper(u)
    \/ \E u \in DOMAIN units : RunScatter(u)
    \/ \E u \in DOMAIN units : RunGather(u)
    \/ \E u \in DOMAIN units : RunResolveIndirect(u)
    \/ main

Spec == Init /\ [][Next]_vars

\* the same program over the scatter workflows
InitScatter ==
    /\ cwlwf \in ScatterWorkflows
    /\ job_order \in ScatterJobOrders
    /\ Constructed

SpecScatter == InitScatter /\ [][Next]_vars

\* the same program over the merge workflows
InitMerge ==
    /\ cwlwf \in MergeWorkflows
    /\ job_order \in MergeJobOrders
    /\ Constructed

SpecMerge == InitMerge /\ [][Next]_vars

\* the same program over the wiring workflows
InitWiring ==
    /\ cwlwf \in WiringWorkflows
    /\ job_order = WiringJobOrder
    /\ Constructed

SpecWiring == InitWiring /\ [][Next]_vars

\* the wiring workflows whose ports b read the workflow inputs; the loop of
\* CWLWorkflow.run, once entered, goes on: a turn, the end of the loop or
\* another pass is taken when it can be
InitLoop ==
    /\ cwlwf \in {wf \in WiringWorkflows :
                     /\ wf.steps[1].inputs[2].source = <<YId>>
                     /\ wf.steps[2].inputs[2].source = <<XId>>}
    /\ job_order = WiringJobOrder
    /\ Constructed

SpecLoop == InitLoop /\ [][Next]_vars /\ WF_vars(VisitStep \/ LoopExit \/ LoopAgain)

\* the same program over the gather workflows
InitGather ==
    /\ cwlwf \in GatherWorkflows
    /\ job_order \in GatherJobOrders
    /\ Constructed

SpecGather == InitGather /\ [][Next]_vars

\* the same program over the input workflows
InitInputs ==
    /\ cwlwf \in InputWorkflows
    /\ \E i \in 1..7 : job_order = InputJobOrder(i)
    /\ Constructed

SpecInputs == InitInputs /\ [][Next]_vars

(***************************************************************************)
(* The unrolling loop and the promise table.                               *)
(***************************************************************************)
\* the pass over the steps is over
PassOver == pc = "pass" /\ stepIdx > Len(steps)

\* a source of a step input or of a workflow output is not in the promise table
SourceMissing ==
    \/ \E i \in DOMAIN steps : \E s \in Range(AllSources(steps[i])) : s \notin DOMAIN promises
    \/ \E i \in DOMAIN units[running].tool.outputs :
           \E s \in Range(aslist(units[running].tool.outputs[i].outputSource)) :
               s \notin DOMAIN promises

\* C1: when a pass over the steps has materialized no step while a source of
\* a step input or of a workflow output is still missing from the promise
\* table, the loop does not start another pass (it stops with an error)
C1_DeadlockReported ==
    [][(PassOver /\ ~progress /\ SourceMissing) => ~(pc' = "pass" /\ stepIdx' = 1)]_vars

\* C2: no unit reads a promise whose producer has not completed: a unit
\* that the batch system may start holds fulfilled promises only, and no unit
\* has failed on an unfulfilled promise
C2_NoPromiseReadEarly ==
    \A u \in DOMAIN units :
        /\ units[u].rv # Err("UnfulfilledPromise")
        /\ CanStart(u) => Fulfilled(units, units[u].cwljob)

\* a consumer of a CWLJobWrapper's output has run and read what the
\* wrapper's child returned
C2_Witness ==
    \E p, u \in DOMAIN units :
        /\ units[p].kind = "CWLJobWrapper"
        /\ hasFollowOn(units[p], u)
        /\ units[u].status = "returned" /\ units[u].executed

\* C3: while a workflow unrolls, an identifier of the promise table stays in
\* it, with the producer it was registered with
C3_SingleAssignment ==
    [][(running # 0 /\ running' = running) =>
          \A id \in DOMAIN promises : id \in DOMAIN promises' /\ promises'[id] = promises[id]]_vars

\* a second pass begins with a step of the first pass in the table
C3_Witness ==
    /\ pc = "pass" /\ stepIdx = 2 /\ Len(steps) = 2
    /\ OutId(2) \in DOMAIN promises /\ OutId(1) \in DOMAIN promises
    /\ promises[OutId(1)].unit > promises[OutId(2)].unit

\* C4: when the loop has ended, the source of every workflow output is a key
\* of the promise table
C4_OutputSourcesRegistered ==
    pc = "outputs" =>
        \A i \in DOMAIN units[running].tool.outputs :
            \A s \in Range(aslist(units[running].tool.outputs[i].outputSource)) :
                s \in DOMAIN promises

(***************************************************************************)
(* The conditional gate.                                                   *)
(***************************************************************************)
\* the short names of the outputs that the tool of a unit declares
DeclaredOutputs(u) == {shortname(o) : o \in Range(outputs_of(units[u].tool))}

\* unit c has run the tool over an input a that it reads from unit u alone
ReadsFrom(c, u) ==
    /\ units[c].kind = "CWLJob" /\ units[c].executed /\ units[c].status = "returned"
    /\ units[c].cwljob.t = "IndirectDict"
    /\ units[c].cwljob.v["a"].t = "ResolveSource"
    /\ ~units[c].cwljob.v["a"].isList
    /\ units[c].cwljob.v["a"].promise_tuples[1].rv = Promise(u)

\* C5: a unit whose gate is false returns one SkipNull per declared output,
\* which a consumer of the output resolves to null, and it neither executes
\* its tool nor materializes a step of its nested workflow
C5_SkippedOutputs ==
    \A u \in DOMAIN units : units[u].gate = "skipped" =>
        /\ units[u].status = "returned"
        /\ units[u].rv.t = "dict"
        /\ DOMAIN units[u].rv.v = DeclaredOutputs(u)
        /\ \A k \in DeclaredOutputs(u) : units[u].rv.v[k] = SkipNull
        /\ ~units[u].executed
        /\ units[u].kind = "CWLWorkflow" => units[u].children = <<>>
        /\ \A c \in DOMAIN units : ReadsFrom(c, u) => units[c].rv.v["o"] = Null

\* a skipped tool of two outputs, and a consumer that has read one of them
C5_Witness ==
    \E u, c \in DOMAIN units :
        /\ units[u].gate = "skipped"
        /\ Cardinality(DeclaredOutputs(u)) = 2
        /\ ReadsFrom(c, u)

\* the units that create the sub-units of a step when they run
CreatesSubUnits(p) == units[p].kind \in {"CWLJobWrapper", "CWLScatter", "CWLWorkflow"}

\* C6 (as stated): no child job of a skipped step is created before the gate
\* has been evaluated to false: a job that a gated step's unit has created,
\* and that carries the step's gate, is never found skipped
C6_NoChildOfSkippedStep ==
    \A p, c \in DOMAIN units :
        (/\ CreatesSubUnits(p)
         /\ hasChild(units[p], c)
         /\ units[p].conditional.expression # Absent
         /\ units[c].conditional = units[p].conditional) => units[c].gate # "skipped"

\* C6 (amended): the gate is evaluated before the tool is executed and before
\* a step of a nested workflow is materialized; a CWLJobWrapper and a
\* CWLScatter do not evaluate it, they hand it to every child they create
C6_GateBeforeExecution ==
    \A u \in DOMAIN units :
        /\ units[u].executed => units[u].gate = "passed"
        /\ (units[u].kind = "CWLWorkflow" /\ units[u].children # <<>>) => units[u].gate = "passed"
        /\ units[u].kind \in {"CWLJobWrapper", "CWLScatter"} =>
               /\ units[u].gate = "unevaluated"
               /\ \A c \in Range(units[u].children) :
                      units[c].conditional = units[u].conditional

\* the child of a gated CWLJobWrapper has evaluated the gate, and skipped
C6_Witness ==
    \E p, c \in DOMAIN units :
        /\ units[p].kind = "CWLJobWrapper"
        /\ hasChild(units[p], c)
        /\ units[c].gate = "skipped"

(***************************************************************************)
(* Scatter.                                                                *)
(***************************************************************************)
\* unit u is a CWLScatter of the given policy that has run
Scattered(u, method) ==
    /\ units[u].kind = "CWLScatter"
    /\ units[u].status # "new"
    /\ scatterMethodOf(units[u].step) = method

\* the job object of the CWLScatter unit u before it scatters
PreScatter(u) == resolved(Loaded(units, u)).v

\* the input of the k-th sub-unit of u, and of the sub-unit behind a promise
SubInput(u, k) == units[units[u].children[k]].cwljob.v
SubInputOf(promise) == units[promise.unit].cwljob.v

Ports == {"a", "b", "c"}

\* the ports of the step of u that have no valueFrom
PortsWithoutValueFrom(u) == Ports \ DOMAIN valueFromOf(units[u].step)

\* in sub, the scattered ports a and b hold the i-th and the j-th element of
\* their arrays and the port c holds what it held before the scatter, as far
\* as the ports of the set go
PortsHold(job, sub, i, j, ports) ==
    /\ "a" \in ports => sub["a"] = job["a"].v[i]
    /\ "b" \in ports => sub["b"] = job["b"].v[j]
    /\ "c" \in ports => sub["c"] = job["c"]

LenA(job) == Len(job["a"].v)
LenB(job) == Len(job["b"].v)

\* u has created n sub-units and returned the promises of their outputs, in order
SubUnits(u, n) ==
    /\ units[u].status = "returned"
    /\ Len(units[u].children) = n
    /\ units[u].rv = ListV([k \in 1..n |-> Promise(units[u].children[k])])

\* dotproduct over the job object: the i-th sub-unit holds the i-th elements
DotproductOf(u, job, ports) ==
    LenA(job) = LenB(job) =>
        /\ SubUnits(u, LenA(job))
        /\ \A i \in 1..LenA(job) : PortsHold(job, SubInput(u, i), i, i, ports)

\* C7 (as stated): dotproduct over arrays of length N creates N sub-units in
\* index order; in the i-th, every scattered port holds the i-th element of
\* its array and every other port holds its value of before the scatter
C7_Dotproduct ==
    \A u \in DOMAIN units :
        Scattered(u, "dotproduct") => DotproductOf(u, PreScatter(u), Ports)

\* C7 (amended): the same, for the ports that have no valueFrom
C7_DotproductPlainPorts ==
    \A u \in DOMAIN units :
        Scattered(u, "dotproduct") => DotproductOf(u, PreScatter(u), PortsWithoutValueFrom(u))

\* u has scattered arrays of two elements each, its ports without valueFrom being ports
TwoByTwo(u, job, ports) ==
    LenA(job) = 2 /\ LenB(job) = 2 /\ PortsWithoutValueFrom(u) = ports

\* a dotproduct over two arrays of two elements has run, c having a valueFrom
C7_Witness ==
    \E u \in DOMAIN units :
        Scattered(u, "dotproduct") /\ TwoByTwo(u, PreScatter(u), {"a", "b"})

\* the arrays differ in length and the unit has failed
UnequalFatal(u, job) == LenA(job) # LenB(job) => units[u].status = "failed"

\* C8: dotproduct over arrays of unequal length ends in a fatal error
C8_UnequalLengthsFatal ==
    \A u \in DOMAIN units : Scattered(u, "dotproduct") => UnequalFatal(u, PreScatter(u))

\* flat_crossproduct over the job object: the sub-unit at (i-1)*b+j (from 1)
\* holds element i of the first array and element j of the second
FlatCrossproductOf(u, job, ports) ==
    /\ SubUnits(u, LenA(job) * LenB(job))
    /\ \A i \in 1..LenA(job) : \A j \in 1..LenB(job) :
           PortsHold(job, SubInput(u, (i - 1) * LenB(job) + j), i, j, ports)

\* C9 (as stated): flat_crossproduct over arrays of lengths a and b creates
\* a*b sub-units, returned as one flat sequence; the one at position i*b+j
\* (from 0) has the first port at element i and the second at element j
C9_FlatCrossproduct ==
    \A u \in DOMAIN units :
        Scattered(u, "flat_crossproduct") => FlatCrossproductOf(u, PreScatter(u), {"a", "b"})

\* C9 (amended): the same, for the scattered ports that have no valueFrom
C9_FlatCrossproductPlainPorts ==
    \A u \in DOMAIN units :
        Scattered(u, "flat_crossproduct") =>
            FlatCrossproductOf(u, PreScatter(u), PortsWithoutValueFrom(u) \ {"c"})

\* a flat_crossproduct over two arrays of two elements has run, a having a valueFrom
C9_Witness ==
    \E u \in DOMAIN units :
        Scattered(u, "flat_crossproduct") /\ TwoByTwo(u, PreScatter(u), {"b", "c"})

\* nested_crossproduct over the job object: a sequence of LenA sequences of
\* LenB promises, the one at [i][j] for the sub-unit of elements i and j
NestedCrossproductOf(u, job, ports) ==
    /\ units[u].status = "returned"
    /\ Len(units[u].children) = LenA(job) * LenB(job)
    /\ units[u].rv.t = "list"
    /\ Len(units[u].rv.v) = LenA(job)
    /\ \A i \in 1..LenA(job) :
           /\ units[u].rv.v[i].t = "list"
           /\ Len(units[u].rv.v[i].v) = LenB(job)
           /\ \A j \in 1..LenB(job) :
                  /\ units[u].rv.v[i].v[j].t = "promise"
                  /\ PortsHold(job, SubInputOf(units[u].rv.v[i].v[j]), i, j, ports)

\* C10 (as stated): nested_crossproduct over arrays of lengths a and b
\* returns a sequence of a sequences of b sub-units; the one at [i][j] has the
\* first port at element i and the second at element j
C10_NestedCrossproduct ==
    \A u \in DOMAIN units :
        Scattered(u, "nested_crossproduct") =>
            NestedCrossproductOf(u, PreScatter(u), {"a", "b"})

\* C10 (amended): the same, for the scattered ports that have no valueFrom
C10_NestedCrossproductPlainPorts ==
    \A u \in DOMAIN units :
        Scattered(u, "nested_crossproduct") =>
            NestedCrossproductOf(u, PreScatter(u), PortsWithoutValueFrom(u) \ {"c"})

\* a nested_crossproduct over two arrays of two elements has run, a having a valueFrom
C10_Witness ==
    \E u \in DOMAIN units :
        Scattered(u, "nested_crossproduct") /\ TwoByTwo(u, PreScatter(u), {"b", "c"})

(***************************************************************************)
(* The scatter policy.                                                     *)
(***************************************************************************)
\* unit u is a CWLScatter that has run
ScatterRan(u) == units[u].kind = "CWLScatter" /\ units[u].status # "new"

\* u has scattered over its only scattered port, sc: one sub-unit per element
\* of the array, in order (a TypeError if the port holds no array)
ForcedDotproduct(u, job, sc) ==
    IF HasLen(job[sc])
    THEN /\ units[u].status = "returned"
         /\ Len(units[u].children) = Len(job[sc].v)
         /\ \A i \in 1..Len(job[sc].v) : SubInput(u, i)[sc] = job[sc].v[i]
    ELSE units[u].status = "failed" /\ units[u].rv = Err("TypeError")

\* u has failed on its policy, and has no sub-unit
PolicyRejected(u) ==
    /\ units[u].status = "failed"
    /\ units[u].rv = Err("ValidationException")
    /\ units[u].children = <<>>

ScatterPolicy(u, step, job) ==
    IsErr(job) \/
        /\ Len(step.scatter) = 1 => ForcedDotproduct(u, job.v, shortname(step.scatter[1]))
        /\ (Len(step.scatter) > 1 /\ step.scatterMethod \notin ScatterMethods) => PolicyRejected(u)

\* C11: a CWLScatter with one scattered port applies dotproduct whatever its
\* scatterMethod is; with several scattered ports and a scatterMethod that is
\* absent or none of the three policies it fails with a validation error and
\* has created no sub-unit
C11_ScatterPolicyValidated ==
    \A u \in DOMAIN units :
        ScatterRan(u) => ScatterPolicy(u, units[u].step, resolved(Loaded(units, u)))

\* a scatter over two ports with no scatterMethod has run over an array of
\* MaxLen elements
C11_Witness ==
    \E u \in DOMAIN units :
        /\ ScatterRan(u)
        /\ Len(units[u].step.scatter) = 2 /\ units[u].step.scatterMethod = "none"
        /\ job_order.v["x"] = ListFrom(0, MaxLen)
        /\ PolicyRejected(u)

(***************************************************************************)
(* Link-merge and pick-value.                                              *)
(***************************************************************************)
\* unit c is a CWLJob made for a step; it has run, its gate has not skipped
\* it and the executor has not failed it
Ran(c) ==
    /\ units[c].kind = "CWLJob"
    /\ units[c].cwljob.t = "IndirectDict"
    /\ units[c].status \in {"returned", "failed"}
    /\ units[c].gate # "skipped"
    /\ units[c].exit # "permanentFail"

\* the port a of unit c, as c has loaded it
PortA(c) == Loaded(units, c).v["a"]

\* the values of the sources of a loaded port, in source order
SourceValues(rs) ==
    [i \in DOMAIN rs.promise_tuples |-> rs.promise_tuples[i].rv.v[rs.promise_tuples[i].key]]

\* what the tool of c was given on its port a (the tool echoes it), or the
\* exception that c has raised
Outcome(c) == IF units[c].status = "returned" THEN units[c].rv.v["o"] ELSE units[c].rv

\* a value with the Skipped markers inside it read as null
RECURSIVE Unskipped(_)
Unskipped(v) ==
    CASE v.t = "skip" -> Null
      [] v.t = "list" -> ListV([i \in DOMAIN v.v |-> Unskipped(v.v[i])])
      [] OTHER -> v

\* the number of elements that a source gives to a flattened sequence, and
\* the number that the sources before the i-th give
Size(v) == IF v.t = "list" THEN Len(v.v) ELSE 1
RECURSIVE Offset(_, _)
Offset(values, i) == IF i = 1 THEN 0 ELSE Offset(values, i - 1) + Size(values[i - 1])

\* out holds one element per source, each with its own shape
Nested(out, values) ==
    /\ out.t = "list"
    /\ Len(out.v) = Len(values)
    /\ \A i \in DOMAIN values : out.v[i] = Unskipped(values[i])

\* out holds the elements of every array source and every other source as
\* one element, in source order
Flattened(out, values) ==
    /\ out.t = "list"
    /\ Len(out.v) = Offset(values, Len(values) + 1)
    /\ \A i \in DOMAIN values :
           IF values[i].t = "list"
           THEN \A k \in DOMAIN values[i].v :
                    out.v[Offset(values, i) + k] = Unskipped(values[i].v[k])
           ELSE out.v[Offset(values, i) + 1] = Unskipped(values[i])

LinkMerged(rs, out) ==
    (rs.isList /\ rs.input.pickValue = "none") =>
        /\ rs.input.linkMerge \in {"none", "merge_nested"} => Nested(out, SourceValues(rs))
        /\ rs.input.linkMerge = "merge_flattened" => Flattened(out, SourceValues(rs))

\* C12: a port with several sources (or a linkMerge) and no pickValue
\* resolves, under merge_flattened, to one sequence in source order with the
\* elements of each array source spliced in, one level only, and each other
\* source as one element; under merge_nested, or with no linkMerge, to one
\* element per source, each with its own shape
C12_LinkMerge ==
    \A c \in DOMAIN units : Ran(c) => LinkMerged(PortA(c), Outcome(c))

\* the sources [[1, .., MaxLen], 5] have been merged flat
MergedFlat(rs, out) ==
    /\ rs.input.linkMerge = "merge_flattened" /\ rs.input.pickValue = "none"
    /\ SourceValues(rs) = <<ListFrom(0, MaxLen), IntV(5)>>
    /\ out = ListV(ListFrom(0, MaxLen).v \o <<IntV(5)>>)

C12_Witness ==
    \E c \in DOMAIN units : Ran(c) /\ MergedFlat(PortA(c), Outcome(c))

\* the linkMerge of the port is absent or one of the two policies
Supported(rs) == rs.input.linkMerge \in {"none", "merge_nested", "merge_flattened"}

\* the value that pick_value is given: the merged sequence, or the value of
\* the only source of a port that has no linkMerge
Merged(rs) ==
    IF rs.isList THEN link_merge(rs.input, SourceValues(rs)) ELSE SourceValues(rs)[1]

\* the sources of the port as a sequence of elements, the only source of a
\* port that has no linkMerge being its only element
SourceElements(rs) ==
    IF rs.isList THEN link_merge(rs.input, SourceValues(rs)).v ELSE <<SourceValues(rs)[1]>>

\* the positions of the elements that are neither null nor a Skipped marker
Survivors(elems) == {i \in DOMAIN elems : elems[i] # Null /\ elems[i] # SkipNull}
First(S) == CHOOSE i \in S : \A j \in S : i <= j

\* out is the first survivor, or a cardinality error if there is none
FirstNonNull(out, elems) ==
    IF Survivors(elems) = {} THEN out = Err("WorkflowException")
    ELSE out = Unskipped(elems[First(Survivors(elems))])

\* pick-value over a sequence; a value that is no sequence is returned as it is
PickedFirst(out, merged) ==
    IF merged.t = "list" THEN FirstNonNull(out, merged.v) ELSE out = Unskipped(merged)

\* C13 (as stated): every port with pickValue first_non_null resolves to the
\* first of its elements, in source order, that is neither null nor a
\* Skipped marker, or fails with a cardinality error if there is none; it
\* never resolves to null
C13_FirstNonNull ==
    \A c \in DOMAIN units :
        (Ran(c) /\ PortA(c).input.pickValue = "first_non_null" /\ Supported(PortA(c))) =>
            FirstNonNull(Outcome(c), SourceElements(PortA(c)))

\* C13 (amended): so it is when the merged value is a sequence (several
\* sources, a linkMerge, or one source whose value is an array, whose
\* elements are then picked from); the value of a single source that is no
\* array is returned as it is, null included, a Skipped marker as null
C13_FirstNonNullOfSequence ==
    \A c \in DOMAIN units :
        (Ran(c) /\ PortA(c).input.pickValue = "first_non_null" /\ Supported(PortA(c))) =>
            PickedFirst(Outcome(c), Merged(PortA(c)))

\* [null, Skipped, 5, 6] has resolved to 5
C13_Witness ==
    \E c \in DOMAIN units :
        /\ Ran(c) /\ PortA(c).input.pickValue = "first_non_null"
        /\ SourceValues(PortA(c)) = <<Null, SkipNull, IntV(5), IntV(6)>>
        /\ Outcome(c) = IntV(5)

\* out is the only survivor, or a cardinality error if there is none or more
\* than one
OnlyNonNull(out, elems) ==
    IF Cardinality(Survivors(elems)) = 1
    THEN out = Unskipped(elems[First(Survivors(elems))])
    ELSE out = Err("WorkflowException")

PickedOnly(out, merged) ==
    IF merged.t = "list" THEN OnlyNonNull(out, merged.v) ELSE out = Unskipped(merged)

\* C14 (as stated): every port with pickValue only_non_null resolves to the
\* one of its elements that is neither null nor a Skipped marker if there is
\* exactly one, and fails with a cardinality error if there is none or more
\* than one
C14_OnlyNonNull ==
    \A c \in DOMAIN units :
        (Ran(c) /\ PortA(c).input.pickValue = "only_non_null" /\ Supported(PortA(c))) =>
            OnlyNonNull(Outcome(c), SourceElements(PortA(c)))

\* C14 (amended): so it is when the merged value is a sequence; the value
\* of a single source that is no array is returned as it is, without a
\* cardinality error
C14_OnlyNonNullOfSequence ==
    \A c \in DOMAIN units :
        (Ran(c) /\ PortA(c).input.pickValue = "only_non_null" /\ Supported(PortA(c))) =>
            PickedOnly(Outcome(c), Merged(PortA(c)))

\* [null, null, 5, 6], with two survivors, has raised
C14_Witness ==
    \E c \in DOMAIN units :
        /\ Ran(c) /\ PortA(c).input.pickValue = "only_non_null"
        /\ SourceValues(PortA(c)) = <<Null, Null, IntV(5), IntV(6)>>
        /\ Outcome(c) = Err("WorkflowException")

\* pick_value has returned a value that holds a Skipped marker, at any depth
MarkerLeft(picked) == ~IsErr(picked) /\ picked # Unskipped(picked)

\* the value that the port gave holds no Skipped marker, and the port has
\* been warned about exactly if a marker was left after pick_value
Filtered(c, rs, out) ==
    /\ units[c].status = "returned" => out = Unskipped(out)
    /\ rs.name \in warnings <=> MarkerLeft(picked_value(rs.input, Merged(rs)))

\* C15: the value that ResolveSource.resolve returns holds no Skipped marker
\* at any depth, every marker left after pick-value being replaced by null,
\* and a warning that names the port is logged exactly when a marker was
\* replaced
C15_NoSkippedMarkerLeft ==
    \A c \in DOMAIN units : Ran(c) => Filtered(c, PortA(c), Outcome(c))

\* an array of Skipped markers, gathered from the skipped sub-units of a
\* scatter, is one of several sources, and the port has been warned about
C15_Witness ==
    \E c \in DOMAIN units :
        /\ Ran(c) /\ units[c].status = "returned"
        /\ Len(PortA(c).promise_tuples) > 1
        /\ \E i \in DOMAIN PortA(c).promise_tuples :
               SourceValues(PortA(c))[i] = ListV([k \in 1..MaxLen |-> SkipNull])
        /\ PortA(c).name \in warnings

\* the ports of a unit's job object whose sources are still to be resolved
SourcePorts(u) ==
    IF units[u].cwljob.t = "IndirectDict"
    THEN {k \in DOMAIN units[u].cwljob.v : units[u].cwljob.v[k].t = "ResolveSource"}
    ELSE {}

\* C16: a step input with an unsupported linkMerge is rejected while the
\* workflow unrolls, before the step is materialized: no unit of the job
\* graph carries a port whose linkMerge is unsupported
C16_LinkMergeValidatedAtUnroll ==
    \A u \in DOMAIN units : \A k \in SourcePorts(u) : Supported(units[u].cwljob.v[k])

(***************************************************************************)
(* The gate, the units of a step, and the executor's status.               *)
(***************************************************************************)
\* the job object that the gate of unit u is evaluated over
GateInput(u) ==
    IF units[u].kind = "CWLJob" THEN filled(units[u].tool, resolved(Loaded(units, u)))
    ELSE resolved(Loaded(units, u))

\* the expression of the gate of u gives a value that is no boolean
NonBooleanGate(u, job) ==
    /\ ~IsErr(job)
    /\ units[u].conditional.expression # Absent
    /\ do_eval(units[u].conditional.expression, job.v, Null).t # "bool"

\* u has raised: it has not run its tool, is not being unrolled and has
\* returned nothing
GateRaised(u) ==
    /\ units[u].status = "failed"
    /\ units[u].rv = Err("WorkflowException")
    /\ ~units[u].executed /\ units[u].exit = "none"
    /\ running # u

\* C17: a unit whose conditional expression gives a value that is not a
\* boolean raises a fatal error: it neither runs what it wraps nor returns
\* the skipped outputs
C17_NonBooleanGateFatal ==
    \A u \in DOMAIN units :
        (/\ units[u].kind \in {"CWLJob", "CWLWorkflow"}
         /\ units[u].status # "new"
         /\ NonBooleanGate(u, GateInput(u))) => GateRaised(u)

\* a tool and a nested workflow have each been started under a gate that
\* gives a number
C17_Witness ==
    \E u \in DOMAIN units :
        /\ units[u].kind = "CWLWorkflow"
        /\ units[u].status # "new"
        /\ NonBooleanGate(u, GateInput(u))

\* wf has no scattered and no conditional step, at any depth
RECURSIVE NoScatterNoWhen(_)
NoScatterNoWhen(wf) ==
    \A i \in DOMAIN wf.steps :
        /\ wf.steps[i].scatter = <<>>
        /\ wf.steps[i].when = Absent
        /\ wf.steps[i].embedded_tool.class = "Workflow"
               => NoScatterNoWhen(wf.steps[i].embedded_tool)

Materializes ==
    /\ pc = "pass" /\ stepIdx <= Len(steps)
    /\ steps[stepIdx].id \in DOMAIN jobs' \ DOMAIN jobs

\* C19 as stated: materializing a non-scattered step adds exactly one unit to
\* the job graph, whatever the step wraps
C19_OneUnitPerStep ==
    [][(Materializes /\ steps[stepIdx].scatter = <<>>)
          => Len(units') = Len(units) + 1]_vars

\* C19 as amended: one unit for a tool (with or without dynamic resource
\* requirements), two for a nested workflow
C19_OneUnitPerToolStep ==
    [][(Materializes /\ steps[stepIdx].scatter = <<>>)
          => Len(units') = Len(units) +
                 (IF steps[stepIdx].embedded_tool.class = "Workflow" THEN 2 ELSE 1)]_vars

\* a nested workflow and a tool with dynamic requirements have been
\* materialized from the two steps of a workflow, neither of them scattered
C19_Witness ==
    /\ \E id \in DOMAIN jobs : units[jobs[id]].kind = "ResolveIndirect"
    /\ \E id \in DOMAIN jobs : units[jobs[id]].kind = "CWLJobWrapper"
    /\ Len(units) = 5

\* x holds a promise for what unit u returns, directly or through what the
\* promised units returned
RECURSIVE Mentions(_, _, _)
Mentions(U, x, u) ==
    CASE x.t = "promise" -> x.unit = u \/ Mentions(U, U[x.unit].rv, u)
      [] x.t \in {"list", "dict", "IndirectDict"} -> \E i \in DOMAIN x.v : Mentions(U, x.v[i], u)
      [] x.t = "ResolveSource" ->
             \E i \in DOMAIN x.promise_tuples : Mentions(U, x.promise_tuples[i].rv, u)
      [] x.t \in {"DefaultWithSource", "StepValueFrom"} -> Mentions(U, x.source, u)
      [] OTHER -> FALSE

\* the units whose job object is to be read from what u returns
Consumers(u) == {c \in DOMAIN units : Mentions(units, units[c].cwljob, u)}

\* C20: a unit for which the execution collaborator answered another status
\* than success has raised and returned no output mapping; no unit that
\* consumes its outputs is ever loaded, and main gets no output object
C20_FailedUnitPublishesNothing ==
    \A u \in DOMAIN units :
        units[u].exit \notin {"none", "success"} =>
            /\ units[u].status = "failed"
            /\ units[u].rv = Err("WorkflowException")
            /\ \A c \in Consumers(u) : units[c].status = "new" /\ units[c].rv = Null
            /\ outobj = Absent

\* a unit has failed in execution while a step and the workflow's outputs
\* wait for what it returns
C20_Witness ==
    \E u \in DOMAIN units :
        /\ units[u].exit = "permanentFail"
        /\ \E c \in Consumers(u) : units[c].kind \in {"CWLJob", "CWLJobWrapper", "CWLWorkflow"}
        /\ \E c \in Consumers(u) : units[c].kind = "ResolveIndirect"

(***************************************************************************)
(* Unrolling: readiness, materialization, registration and wiring.         *)
(***************************************************************************)
\* this step of the loop visits the step at stepIdx
Visits == pc = "pass" /\ stepIdx <= Len(steps) /\ stepIdx' = stepIdx + 1

\* every source of every input port of the step is a key of the promise table
Ready(step) ==
    \A i \in DOMAIN step.inputs :
        \A k \in DOMAIN step.inputs[i].source : step.inputs[i].source[k] \in DOMAIN promises

\* the identifiers of the inputs of the workflow that unrolls
WorkflowInputs == {units[running].tool.inputs[i].id : i \in DOMAIN units[running].tool.inputs}

\* the step reads workflow inputs only, or nothing
InputsOnly(step) ==
    \A i \in DOMAIN step.inputs :
        \A k \in DOMAIN step.inputs[i].source : step.inputs[i].source[k] \in WorkflowInputs

\* C21: a visit of a step that is not materialized yet materializes it if
\* and only if every source of every input port is a key of the promise
\* table; the workflow inputs are keys during every pass, and a step that
\* reads workflow inputs only (or nothing) is materialized once the first
\* pass has visited it
C21_ReadinessRule ==
    /\ [][(Visits /\ steps[stepIdx].id \notin DOMAIN jobs)
             => (steps[stepIdx].id \in DOMAIN jobs' <=> Ready(steps[stepIdx]))]_vars
    /\ [](pc = "pass" =>
             /\ WorkflowInputs \subseteq DOMAIN promises
             /\ \A i \in DOMAIN steps :
                    (i < stepIdx /\ InputsOnly(steps[i])) => steps[i].id \in DOMAIN jobs)

\* the first step has been passed over for a source that is not registered
\* while its other port reads a workflow input, and the second step, which
\* reads workflow inputs only, has been materialized in the first pass
C21_Witness ==
    /\ pc = "pass" /\ stepIdx = 3 /\ Len(steps) = 2
    /\ DOMAIN jobs = {StepId(2)}
    /\ InputsOnly(steps[2])
    /\ \E i, j \in DOMAIN steps[1].inputs :
           /\ steps[1].inputs[i].source = <<OutId(2)>>
           /\ steps[1].inputs[j].source # <<>> /\ InputsOnly([inputs |-> <<steps[1].inputs[j]>>])

\* C22: a step is materialized at most once: visiting a step that has been
\* materialized adds no unit and no edge to the job graph and registers
\* nothing, and the unit recorded for a step stays the one recorded
C22_MaterializedOnce ==
    [][/\ (Visits /\ steps[stepIdx].id \in DOMAIN jobs)
             => (units' = units /\ jobs' = jobs /\ promises' = promises)
       /\ (pc = "pass" /\ pc' = "pass")
             => \A id \in DOMAIN jobs : id \in DOMAIN jobs' /\ jobs'[id] = jobs[id]]_vars

\* a second pass, which materialized the first step, has visited the second
\* step again, materialized in the first pass
C22_Witness ==
    /\ pc = "pass" /\ stepIdx = 3 /\ Len(steps) = 2
    /\ DOMAIN jobs = {StepId(1), StepId(2)}
    /\ jobs[StepId(2)] < jobs[StepId(1)]

\* unit f of the graph U is new in it (the graph held n units) and is the
\* one that finally produces the outputs of the step
FinalProducer(U, n, f, step) ==
    /\ f > n /\ f \in DOMAIN U
    /\ IF step.scatter # <<>>
       THEN /\ U[f].kind = "CWLGather"
            /\ U[f].step = step
            /\ \E sc \in n + 1 .. Len(U) :
                   U[sc].kind = "CWLScatter" /\ U[f].cwljob = Promise(sc) /\ hasFollowOn(U[sc], f)
       ELSE IF step.embedded_tool.class = "Workflow"
       THEN /\ U[f].kind = "ResolveIndirect"
            /\ \E w \in n + 1 .. Len(U) :
                   /\ U[w].kind = "CWLWorkflow" /\ U[w].tool = step.embedded_tool
                   /\ U[f].cwljob = Promise(w) /\ hasFollowOn(U[w], f)
       ELSE /\ U[f].kind = (IF step.embedded_tool.dynres THEN "CWLJobWrapper" ELSE "CWLJob")
            /\ U[f].tool = step.embedded_tool

\* C23: the visit that materializes a step makes every declared output of
\* the step a key of the promise table, mapped to the unit that finally
\* produces the outputs: the gather unit of a scattered step, the follow-on
\* resolver of a nested workflow, the job itself otherwise
C23_OutputsRegistered ==
    [][Materializes =>
          \A k \in DOMAIN steps[stepIdx].out :
              /\ steps[stepIdx].out[k] \in DOMAIN promises'
              /\ promises'[steps[stepIdx].out[k]].t = "Job"
              /\ FinalProducer(units', Len(units), promises'[steps[stepIdx].out[k]].unit,
                               steps[stepIdx])]_vars

\* a scattered step and a nested workflow have been materialized: the table
\* maps the output of the one to a gather unit, of the other to a resolver
C23_Witness ==
    /\ pc = "pass"
    /\ OutId(1) \in DOMAIN promises /\ units[promises[OutId(1)].unit].kind = "CWLGather"
    /\ OutId(2) \in DOMAIN promises /\ units[promises[OutId(2)].unit].kind = "ResolveIndirect"

\* the number of edges (child or follow-on) from the unit to c
Edges(unit, c) ==
    Cardinality({i \in DOMAIN unit.children : unit.children[i] = c})
    + Cardinality({i \in DOMAIN unit.followOns : unit.followOns[i] = c})

\* the units that produce the sources of the step, by the promise table: the
\* workflow's own unit for a workflow input
Producers(step) ==
    {IF promises[s].t = "SelfJob" THEN promises[s].j ELSE promises[s].unit :
        s \in UNION {Range(step.inputs[i].source) : i \in DOMAIN step.inputs}}

\* in the graph U, exactly one edge leads to the unit c from every unit of
\* prods, and none from any other unit
WiredOnce(U, prods, c) ==
    \A p \in DOMAIN U : Edges(U[p], c) = (IF p \in prods THEN 1 ELSE 0)

\* C24: the visit that materializes a step whose ports declare sources wires
\* exactly one edge to the new unit from each distinct unit that produces a
\* source of the step, and from no other unit
C24_OneEdgePerProducer ==
    [][(Materializes /\ Producers(steps[stepIdx]) # {})
          => WiredOnce(units', Producers(steps[stepIdx]), Len(units) + 1)]_vars

\* the second step has been materialized: it reads the output of the first
\* step twice in one port and the workflow input too, and has one edge from
\* the unit of the first step and one from the workflow's own unit
C24_Witness ==
    /\ pc = "pass" /\ Len(steps) = 2 /\ StepId(2) \in DOMAIN jobs
    /\ steps[2].inputs[1].source = <<OutId(1), OutId(1)>>
    /\ steps[2].inputs[2].source = <<XId>>
    /\ Edges(units[promises[OutId(1)].unit], jobs[StepId(2)]) = 1
    /\ Edges(units[running], jobs[StepId(2)]) = 1

\* C25: the visit that materializes a step none of whose ports declares a
\* source makes the new unit a child of the unit of the workflow that
\* unrolls, once, with no other edge to it; and every unit of the job graph
\* but the root has a predecessor
C25_AttachedToTheGraph ==
    /\ [][(Materializes /\ AllSources(steps[stepIdx]) = <<>>)
             => /\ hasChild(units'[running], Len(units) + 1)
                /\ \A p \in DOMAIN units' :
                       Edges(units'[p], Len(units) + 1) = (IF p = running THEN 1 ELSE 0)]_vars
    /\ [](\A u \in DOMAIN units : u > 1 => \E p \in DOMAIN units : Edges(units[p], u) > 0)

\* the second step, whose two ports have a default and no source, has been
\* materialized as a child of the workflow's own unit
C25_Witness ==
    /\ pc = "pass" /\ Len(steps) = 2 /\ StepId(2) \in DOMAIN jobs
    /\ AllSources(steps[2]) = <<>>
    /\ steps[2].inputs[1].default # Absent
    /\ hasChild(units[running], jobs[StepId(2)])

(***************************************************************************)
(* The merged value of a port, and the pick-value policies left.           *)
(***************************************************************************)
\* the port has a linkMerge or more than one source
ListMode(rs) == rs.input.linkMerge # "none" \/ Len(rs.input[rs.source_key]) > 1

\* the value of the only source itself, or a sequence with one element per
\* source, in source order
OnePerSource(rs) ==
    IF ListMode(rs) THEN ListV(SourceValues(rs)) ELSE SourceValues(rs)[1]

\* out is what pick-value and the replacement of Skipped markers make of m
ResolvesFrom(rs, out, m) == out = filtered_value(rs.name, picked_value(rs.input, m))

\* C26 (as stated): a port with one source and no linkMerge resolves to the
\* value of that source itself; a port with a linkMerge policy or with more
\* than one source resolves, before pick-value, to a sequence with one
\* element per source, in declared source order
C26_OneElementPerSource ==
    \A c \in DOMAIN units :
        (Ran(c) /\ Supported(PortA(c))) =>
            ResolvesFrom(PortA(c), Outcome(c), OnePerSource(PortA(c)))

\* C26 (amended): so it is unless the linkMerge is merge_flattened
C26_OneElementPerSourceNested ==
    \A c \in DOMAIN units :
        (Ran(c) /\ Supported(PortA(c)) /\ PortA(c).input.linkMerge # "merge_flattened") =>
            ResolvesFrom(PortA(c), Outcome(c), OnePerSource(PortA(c)))

\* a port with the one source 3 and merge_nested has resolved to [3], and a
\* port with the one source 3 and no linkMerge to 3
C26_Witness ==
    /\ \E c \in DOMAIN units :
           /\ Ran(c) /\ PortA(c).input.linkMerge = "merge_nested"
           /\ PortA(c).input.pickValue = "none"
           /\ SourceValues(PortA(c)) = <<IntV(3)>>
           /\ Outcome(c) = ListV(<<IntV(3)>>)
    /\ \E c \in DOMAIN units :
           /\ Ran(c) /\ PortA(c).input.linkMerge = "none"
           /\ SourceValues(PortA(c)) = <<IntV(3)>>
           /\ Outcome(c) = IntV(3)

\* out is the list of the survivors of elems, in their order
AllNonNull(out, elems) ==
    /\ out.t = "list"
    /\ Len(out.v) = Cardinality(Survivors(elems))
    /\ \A i \in Survivors(elems) :
           out.v[Cardinality({j \in Survivors(elems) : j <= i})] = Unskipped(elems[i])

PickedAll(out, merged) ==
    IF merged.t = "list" THEN AllNonNull(out, merged.v) ELSE out = Unskipped(merged)

\* C27 (as stated): every port with pickValue all_non_null resolves to the
\* list of its elements that are neither null nor a Skipped marker, in
\* their order; the list may be empty and no cardinality error is raised
C27_AllNonNull ==
    \A c \in DOMAIN units :
        (Ran(c) /\ PortA(c).input.pickValue = "all_non_null" /\ Supported(PortA(c))) =>
            AllNonNull(Outcome(c), SourceElements(PortA(c)))

\* C27 (amended): so it is when the merged value is a sequence; the value
\* of a single source that is no array is returned as it is, not as a list
C27_AllNonNullOfSequence ==
    \A c \in DOMAIN units :
        (Ran(c) /\ PortA(c).input.pickValue = "all_non_null" /\ Supported(PortA(c))) =>
            PickedAll(Outcome(c), Merged(PortA(c)))

\* [null, Skipped, 5, 6] has resolved to [5, 6]
C27_Witness ==
    \E c \in DOMAIN units :
        /\ Ran(c) /\ PortA(c).input.pickValue = "all_non_null"
        /\ SourceValues(PortA(c)) = <<Null, SkipNull, IntV(5), IntV(6)>>
        /\ Outcome(c) = ListV(<<IntV(5), IntV(6)>>)

\* C28: a port with no pickValue resolves to its merged value with nothing
\* filtered out: the nulls are kept, the number and the order of the
\* elements are those of the merged value, and the only change is that the
\* Skipped markers are replaced by null
C28_NoPolicyPassesThrough ==
    \A c \in DOMAIN units :
        (Ran(c) /\ PortA(c).input.pickValue = "none" /\ Supported(PortA(c))) =>
            Outcome(c) = Unskipped(Merged(PortA(c)))

\* [null, Skipped, 5, 6] has resolved to [null, null, 5, 6]
C28_Witness ==
    \E c \in DOMAIN units :
        /\ Ran(c) /\ PortA(c).input.pickValue = "none"
        /\ SourceValues(PortA(c)) = <<Null, SkipNull, IntV(5), IntV(6)>>
        /\ Outcome(c) = ListV(<<Null, Null, IntV(5), IntV(6)>>)

(***************************************************************************)
(* Gather, and the gate of the sub-jobs of a scatter.                      *)
(***************************************************************************)
\* out has the shape of the collection coll of sub-job results, with the
\* value of port k of the result at the place of every result
RECURSIVE GatheredFrom(_, _, _)
GatheredFrom(out, coll, k) ==
    IF coll.t = "list"
    THEN /\ out.t = "list"
         /\ Len(out.v) = Len(coll.v)
         /\ \A i \in DOMAIN coll.v : GatheredFrom(out.v[i], coll.v[i], k)
    ELSE k \in DOMAIN coll.v /\ out = coll.v[k]

\* value holds one entry per declared output of the step, gathered from coll
Gathered(value, step, coll) ==
    /\ value.t = "dict"
    /\ DOMAIN value.v = {shortname(step.out[i]) : i \in DOMAIN step.out}
    /\ \A k \in DOMAIN value.v : GatheredFrom(value.v[k], coll, k)

\* C29: CWLGather.run returns, for every declared output of the scattered
\* step, a value with the nesting and the order of the collection of the
\* sub-job results, the value of that output in the result at each place
\* (an empty list for an empty collection)
C29_GatherKeepsShape ==
    \A g \in DOMAIN units :
        (units[g].kind = "CWLGather" /\ units[g].status = "returned") =>
            Gathered(units[g].rv, units[g].step, Loaded(units, g))

\* the results of a nested cross product of two by two, of a tool with two
\* outputs, have been gathered
C29_Witness ==
    \E g \in DOMAIN units :
        /\ units[g].kind = "CWLGather" /\ units[g].status = "returned"
        /\ Len(units[g].step.out) = 2
        /\ Len(Loaded(units, g).v) = 2
        /\ \A i \in 1..2 : Loaded(units, g).v[i].t = "list" /\ Len(Loaded(units, g).v[i].v) = 2

\* the elements of out at the places of the leaves of tree, in order, out
\* having the nesting of tree
RECURSIVE Along(_, _)
RECURSIVE AlongSeq(_, _)
Along(out, tree) == IF tree.t = "list" THEN AlongSeq(out.v, tree.v) ELSE <<out>>
AlongSeq(o, s) ==
    IF s = <<>> THEN <<>> ELSE Along(Head(o), Head(s)) \o AlongSeq(Tail(o), Tail(s))

\* the CWLScatter unit whose sub-job results the CWLGather unit g collects
ScatterOf(g) == units[g].cwljob.unit

\* the j-th sub-job of the CWLScatter unit sc holds the gate of the step, and
\* the gate is false of its own job object
SharesGate(sc, j) == units[units[sc].children[j]].conditional = units[sc].conditional
SkipsOwnInput(sc, j) ==
    is_false(units[sc].conditional, units[units[sc].children[j]].cwljob) = BoolV(TRUE)

\* the gathered value out of one port has one place per sub-job of sc, the
\* place of a sub-job holding the Skipped marker exactly if the gate is false
\* of the job object of that sub-job
OnePlacePerSubJob(out, sc) ==
    /\ Len(Along(out, units[sc].rv)) = Len(units[sc].children)
    /\ \A j \in DOMAIN units[sc].children :
          /\ SharesGate(sc, j)
          /\ (Along(out, units[sc].rv)[j] = SkipNull) <=> SkipsOwnInput(sc, j)

GatherReturned(g) == units[g].kind = "CWLGather" /\ units[g].status = "returned"

\* C30 as stated: the sub-jobs of a scattered step hold the gate of the step
\* and each evaluates it on its own job object; the gathered value of every
\* output has one place per sub-job, a skipped sub-job keeping its place, and
\* the length of the gathered value is the number of sub-jobs
C30_GatheredLengthIsSubJobs ==
    \A g \in DOMAIN units :
        GatherReturned(g) =>
            \A k \in DOMAIN units[g].rv.v :
                /\ OnePlacePerSubJob(units[g].rv.v[k], ScatterOf(g))
                /\ Len(units[g].rv.v[k].v) = Len(units[ScatterOf(g)].children)

\* C30, amended: as above, the length of the gathered value being the number
\* of sub-jobs under dotproduct and flat_crossproduct; under
\* nested_crossproduct the gathered value is a list of lists, whose innermost
\* places are one per sub-job
C30_OnePlacePerSubJob ==
    \A g \in DOMAIN units :
        GatherReturned(g) =>
            \A k \in DOMAIN units[g].rv.v :
                /\ OnePlacePerSubJob(units[g].rv.v[k], ScatterOf(g))
                /\ scatterMethodOf(units[g].step) # "nested_crossproduct" =>
                       Len(units[g].rv.v[k].v) = Len(units[ScatterOf(g)].children)

\* a gate that is false of some sub-jobs only: two sub-jobs under a flat
\* policy, the second one skipped and the first one executed, have been gathered
C30_Witness ==
    \E g \in DOMAIN units :
        /\ GatherReturned(g)
        /\ scatterMethodOf(units[g].step) # "nested_crossproduct"
        /\ Len(units[ScatterOf(g)].children) = 2
        /\ ~SkipsOwnInput(ScatterOf(g), 1)
        /\ SkipsOwnInput(ScatterOf(g), 2)
        /\ \A k \in DOMAIN units[g].rv.v :
              /\ units[g].rv.v[k].v[1] # SkipNull
              /\ units[g].rv.v[k].v[2] = SkipNull

(***************************************************************************)
(* The input object of a step: default, valueFrom and the gate.            *)
(***************************************************************************)
\* the sub-input of the k-th sub-job of the CWLScatter unit u, which scatters
\* over sc, before any valueFrom: the job object of u with sc replaced by
\* its k-th element
Substituted(u, sc, k) == [PreScatter(u) EXCEPT ![sc] = PreScatter(u)[sc].v[k]]

\* io with every port of valueFrom that it lacks bound to null
NullBound(valueFrom, io) ==
    [p \in DOMAIN io \cup DOMAIN valueFrom |-> IF p \in DOMAIN io THEN io[p] ELSE Null]

\* every expression of valueFrom evaluated over bindings, the value of its
\* own port as context
EvaluatedOver(valueFrom, bindings, io) ==
    [p \in DOMAIN NullBound(valueFrom, io) |->
        IF p \in DOMAIN valueFrom
        THEN do_eval(valueFrom[p], bindings, NullBound(valueFrom, io)[p])
        ELSE io[p]]

\* the CWLScatter unit u has scattered over its one port sc
ScatteredOver(u, sc) ==
    /\ units[u].kind = "CWLScatter" /\ units[u].status = "returned"
    /\ units[u].step.scatter = << units[u].step.id \o <<sc>> >>

\* C31: the job object that a CWLScatter unit loads holds no valueFrom; each
\* of its sub-jobs has the input in which the scattered port holds its
\* element and every port with a valueFrom holds the value of its
\* expression, evaluated over the substituted values of all the ports, the
\* ports with a valueFrom that the sub-input lacks bound to null
C31_ValueFromAfterScatter ==
    \A u \in DOMAIN units :
        ScatteredOver(u, "b") =>
            /\ \A p \in DOMAIN Loaded(units, u).v : Loaded(units, u).v[p].t # "StepValueFrom"
            /\ Len(units[u].children) = Len(PreScatter(u)["b"].v)
            /\ \A k \in DOMAIN units[u].children :
                  SubInput(u, k) =
                      EvaluatedOver(valueFromOf(units[u].step),
                                    NullBound(valueFromOf(units[u].step), Substituted(u, "b", k)),
                                    Substituted(u, "b", k))

\* the unit u was made for the step s1, not scattered: it loads the deferred
\* values of the ports of the step
StepUnit(u) ==
    /\ units[u].kind \in {"CWLJob", "CWLJobWrapper"}
    /\ units[u].cwljob.t = "IndirectDict"
    /\ "b" \in DOMAIN units[u].cwljob.v

\* the upstream value of the port p of u: what the port resolves to before
\* any valueFrom
Upstream(u) == [p \in DOMAIN Loaded(units, u).v |-> resolve(Loaded(units, u).v[p])]

\* the expressions of the ports of u
Expressions(u) ==
    [p \in {q \in DOMAIN Loaded(units, u).v : Loaded(units, u).v[q].t = "StepValueFrom"} |->
        Loaded(units, u).v[p].expr]

\* the job object that u has resolved can be seen: a CWLJob has executed the
\* tool, whose output job holds it; a CWLJobWrapper has handed it to its child
Observable(u) ==
    /\ units[u].status = "returned"
    /\ units[u].kind = "CWLJob" => units[u].executed
Observed(u) ==
    IF units[u].kind = "CWLJob" THEN units[u].rv.v["job"].v
    ELSE units[units[u].children[1]].cwljob.v

\* C32: every valueFrom expression of a step is evaluated over the upstream
\* values of all the ports of the step, whatever the other expressions give:
\* the ports of the step that the tool declares hold the values of the
\* expressions over that one binding set, the upstream value of the port as
\* context
C32_OneBindingSet ==
    \A u \in DOMAIN units :
        (StepUnit(u) /\ Observable(u)) =>
            \A p \in {"a", "b"} \cap DOMAIN Upstream(u) :
                Observed(u)[p] = EvaluatedOver(Expressions(u), Upstream(u), Upstream(u))[p]

\* the expression of a reads b and the expression of b reads a: a holds the
\* upstream value of b and b the upstream value of a, which differ
C32_Witness ==
    \E u \in DOMAIN units :
        /\ StepUnit(u) /\ Observable(u)
        /\ {"a", "b"} \subseteq DOMAIN Expressions(u)
        /\ Expressions(u)["a"] = InputE("b") /\ Expressions(u)["b"] = InputE("a")
        /\ Upstream(u)["a"] # Upstream(u)["b"]
        /\ Observed(u)["a"] = Upstream(u)["b"]
        /\ Observed(u)["b"] = Upstream(u)["a"]

(***************************************************************************)
(* The unrolling loop: its end, and the order of materialization.          *)
(***************************************************************************)
\* the identifiers that the inputs of wf and the outputs of its steps in S carry
Produced(wf, S) ==
    {wf.inputs[i].id : i \in DOMAIN wf.inputs}
    \cup UNION {Range(wf.steps[i].out) : i \in S}

\* the steps of wf that n rounds reach from S, a round adding every step whose
\* sources are all produced by the inputs and the steps reached so far
RECURSIVE Reached(_, _, _)
Reached(wf, S, n) ==
    IF n = 0 THEN S
    ELSE Reached(wf, S \cup {i \in DOMAIN wf.steps :
                                Range(AllSources(wf.steps[i])) \subseteq Produced(wf, S)},
                 n - 1)

\* every source of wf is an input of wf or the output of a step, and the
\* steps can be put in an order in which every step follows its producers
AcyclicWellSourced(wf) ==
    /\ Reached(wf, {}, Len(wf.steps)) = DOMAIN wf.steps
    /\ \A i \in DOMAIN wf.outputs :
          Range(wf.outputs[i].outputSource) \cup Range(wf.outputs[i].source)
              \subseteq Produced(wf, DOMAIN wf.steps)

\* the loop runs over such a workflow
SoundLoop == pc = "pass" /\ AcyclicWellSourced(units[running].tool)

\* C33: in a workflow whose sources are all produced and whose steps depend
\* on each other without a cycle, a pass that is followed by another pass
\* has materialized a step, and the loop ends
C33_LoopTerminates ==
    /\ [][(PassOver /\ SoundLoop /\ pc' = "pass" /\ stepIdx' = 1) => progress]_vars
    /\ SoundLoop ~> (pc # "pass")

\* the loop of a workflow of two steps, the first of which reads the output of
\* the second, has ended: it has taken a second pass
C33_Witness ==
    /\ pc = "outputs"
    /\ Len(steps) = 2
    /\ AcyclicWellSourced(units[running].tool)
    /\ OutId(2) \in Range(AllSources(steps[1]))

\* C34: when the loop has ended every step of the workflow is materialized
C34_NoStepLeftPending ==
    pc = "outputs" => \A i \in DOMAIN steps : steps[i].id \in DOMAIN jobs

\* the loop of a workflow of two steps has ended; nothing reads the output of
\* the second step, which reads the output of the first
C34_Witness ==
    /\ pc = "outputs"
    /\ Len(steps) = 2
    /\ OutId(1) \in Range(AllSources(steps[2]))
    /\ OutId(2) \notin Range(AllSources(steps[1]))
    /\ \A i \in DOMAIN units[running].tool.outputs :
          OutId(2) \notin Range(units[running].tool.outputs[i].outputSource)
    /\ steps[2].id \in DOMAIN jobs

\* the units that n rounds reach from the units S along the edges of U
RECURSIVE Downstream(_, _, _)
Downstream(U, S, n) ==
    IF n = 0 THEN S
    ELSE Downstream(U, S \cup UNION {Range(U[u].children) \cup Range(U[u].followOns) : u \in S},
                    n - 1)

\* no unit of U is reached from its own successors
Acyclic(U) ==
    \A u \in DOMAIN U :
        u \notin Downstream(U, Range(U[u].children) \cup Range(U[u].followOns), Len(U))

\* the step of the unrolling workflow that has the output s, if any
StepsWithOutput(s) == {j \in DOMAIN steps : s \in Range(steps[j].out)}

\* C35: when a step is materialized every identifier that it reads is a key
\* of the promise table and the step that produces it is materialized; the
\* edges of the job graph form no cycle
C35_ProducersFirst ==
    /\ [][Materializes =>
             \A s \in Range(AllSources(steps[stepIdx])) :
                 /\ s \in DOMAIN promises
                 /\ \A j \in StepsWithOutput(s) : steps[j].id \in DOMAIN jobs]_vars
    /\ []Acyclic(units)

\* the first step of the list reads the output of the second and is wired to
\* it: the second was materialized in the first pass, the first in the second
C35_Witness ==
    /\ pc = "pass"
    /\ Len(steps) = 2
    /\ OutId(2) \in Range(AllSources(steps[1]))
    /\ steps[1].id \in DOMAIN jobs /\ steps[2].id \in DOMAIN jobs
    /\ \E c \in DOMAIN units : Edges(units[jobs[steps[2].id]], c) > 0

\* the port a of the step of u has a default and no valueFrom
DefaultedPort(u) ==
    /\ "a" \in DOMAIN Loaded(units, u).v
    /\ Loaded(units, u).v["a"].t = "DefaultWithSource"

\* the value of the source of the port a of u, null if it has none
SourceValue(u) ==
    IF Loaded(units, u).v["a"].source = Absent THEN Null
    ELSE resolve(Loaded(units, u).v["a"].source)

\* C36: a port with a default holds the value of its source whenever that
\* value is not null, and the default when it has no source or the value of
\* its source is null
C36_DefaultForNullOnly ==
    \A u \in DOMAIN units :
        (StepUnit(u) /\ Observable(u) /\ DefaultedPort(u)) =>
            Observed(u)["a"] = (IF SourceValue(u) # Null THEN SourceValue(u)
                                ELSE Loaded(units, u).v["a"].default)

(***************************************************************************)
(* The two cross products.                                                 *)
(***************************************************************************)
\* a (nested) list of job objects flattened completely, depth first and from
\* left to right
RECURSIVE FlattenedCompletely(_)
FlattenedCompletely(tree) ==
    IF tree.t # "list" THEN <<tree>>
    ELSE IF tree.v = <<>> THEN <<>>
    ELSE FlattenedCompletely(Head(tree.v)) \o FlattenedCompletely(ListV(Tail(tree.v)))

\* the sub-inputs of the sub-jobs of u, in the order of their creation
SubInputs(u) == [k \in DOMAIN units[u].children |-> DictV(SubInput(u, k))]

\* what each cross product builds from the job object of u
FlatOf(u) == flat_crossproduct_scatter(PreScatter(u), units[u].step.scatter, valueFromOf(units[u].step))
NestedOf(u) == nested_crossproduct_scatter(PreScatter(u), units[u].step.scatter, valueFromOf(units[u].step))

\* u has run flat_crossproduct or nested_crossproduct to its end
CrossProductRan(u) ==
    /\ units[u].kind = "CWLScatter" /\ units[u].status = "returned"
    /\ scatterMethodOf(units[u].step) \in {"flat_crossproduct", "nested_crossproduct"}

\* C37: over the job object of a unit that has run a cross product, the
\* nested cross product flattened completely is the flat cross product, and
\* the sub-jobs that the unit has created, under the one policy or the other,
\* have these sub-inputs, as many and in that order
C37_NestedFlattenedIsFlat ==
    \A u \in DOMAIN units :
        CrossProductRan(u) =>
            /\ FlattenedCompletely(NestedOf(u)) = FlatOf(u).v
            /\ SubInputs(u) = FlatOf(u).v

\* a nested cross product of two by two has run: four sub-jobs, the second
\* of which differs from the third
C37_Witness ==
    \E u \in DOMAIN units :
        /\ CrossProductRan(u)
        /\ scatterMethodOf(units[u].step) = "nested_crossproduct"
        /\ Len(units[u].rv.v) = 2
        /\ Len(units[u].children) = 4
        /\ SubInput(u, 2) # SubInput(u, 3)

(***************************************************************************)
(* The order of source, default and valueFrom on a port.                   *)
(***************************************************************************)
\* the port a of the step s1 of the workflow; the value of its source, the
\* workflow input x (null without a source); that value after the default
\* has been applied, as DefaultWithSource applies it
InputPortA == cwlwf.steps[1].inputs[1]
SourceOfA == IF InputPortA.source = <<>> THEN Null ELSE job_order.v["x"]
AfterDefault ==
    IF InputPortA.default = Absent THEN SourceOfA
    ELSE IF InputPortA.source # <<>> /\ Truthy(SourceOfA) THEN SourceOfA
    ELSE InputPortA.default

\* C38: the port a of a step that is not scattered, with a valueFrom, holds
\* the value of its expression; the context of the expression, and the value
\* that the bindings give to a, is the value of the source after the default
\* has been applied, and null for a port with neither source nor default
C38_SourceDefaultValueFrom ==
    \A u \in DOMAIN units :
        (StepUnit(u) /\ Observable(u) /\ InputPortA.valueFrom # Absent) =>
            /\ Upstream(u)["a"] = AfterDefault
            /\ Observed(u)["a"] = do_eval(InputPortA.valueFrom, Upstream(u), AfterDefault)

\* a port with source, default and the valueFrom self, whose source is null:
\* the tool receives the default
C38_Witness ==
    \E u \in DOMAIN units :
        /\ StepUnit(u) /\ Observable(u)
        /\ InputPortA.valueFrom = SelfE
        /\ InputPortA.source # <<>> /\ InputPortA.default # Absent
        /\ SourceOfA = Null
        /\ Observed(u)["a"] = InputPortA.default

(***************************************************************************)
(* CWLJob.run: the gate, and then the declared inputs.                     *)
(***************************************************************************)
\* the CWLJob unit u of a tool that reports its job object has run
JobRan(u) ==
    /\ units[u].kind = "CWLJob"
    /\ units[u].gate \in {"passed", "skipped"}
    /\ <<"job">> \in Range(units[u].tool.outputs)

\* the whole job object that u has resolved
FullInput(u) == resolved(Loaded(units, u)).v

\* the inputs that the tool of u declares
DeclaredInputs(u) == {shortname(units[u].tool.inputs[i].id) : i \in DOMAIN units[u].tool.inputs}

\* C39: a CWLJob is skipped exactly if its gate is false of the whole job
\* object that it has resolved, the inputs that the tool does not declare
\* included; a tool that is executed receives its declared inputs, and no
\* other
C39_GateBeforeDeclaredInputs ==
    \A u \in DOMAIN units :
        JobRan(u) =>
            /\ (units[u].gate = "skipped") <=>
                  (/\ units[u].conditional.expression # Absent
                   /\ do_eval(units[u].conditional.expression, FullInput(u), Null) = BoolV(FALSE))
            /\ (units[u].executed /\ units[u].status = "returned") =>
                  DOMAIN units[u].rv.v["job"].v = DeclaredInputs(u)

\* a gate that tests e, which the tool does not declare, has passed, and the
\* tool was executed without e
C39_Witness ==
    \E u \in DOMAIN units :
        /\ JobRan(u)
        /\ units[u].conditional.expression = NonNullE("e")
        /\ units[u].gate = "passed"
        /\ units[u].executed /\ units[u].status = "returned"
        /\ FullInput(u)["e"] # Null
        /\ "e" \notin DeclaredInputs(u)
        /\ "e" \notin DOMAIN units[u].rv.v["job"].v

====
